---- MODULE Spec2Model ----
(***************************************************************************)
(* Workflow execution engine of the visual-editor backend:                 *)
(*   - the schedule compiler  (executor.py, _build_execution_plan)         *)
(*   - the local executor     (executor.py, DatapizzaWorkflowExecutor.run) *)
(*   - the run store          (run_manager.py, WorkflowRunStore)           *)
(* Node ids are 1..n in declaration order; an edge is a (source, target)   *)
(* pair and the edge list keeps its order and its duplicates.              *)
(***************************************************************************)
EXTENDS Integers, Sequences, FiniteSets, TLC

(***************************************************************************)
(* Bounds of the model.                                                    *)
(***************************************************************************)
MaxNodes == 3
MaxEdges == 3
MaxRunNodes == 2
MaxRunEdges == 2

VARIABLES
    workflow,       \* the WorkflowDefinition handed to the engine
    plan,           \* what _build_execution_plan returned (NoPlan before the call)
    node_timeout,   \* DatapizzaWorkflowExecutor.node_timeout, in hundredths of a second
    pc,             \* where run() is: idle, loop, waiting, joining, returned, raised
    idx,            \* position of the drive loop in the execution order
    steps,          \* run(): steps
    status,         \* run(): status
    raw_results,    \* run(): raw_results
    results,        \* run(): grouped_results (normalised results by node)
    cur,            \* the node under examination: its data and what it resolves to
    worker,         \* the pool thread running the capability
    future,         \* what the capability produced
    call,           \* the keyword arguments of the invocation in progress
    invoked,        \* nodes whose capability was submitted, in submission order
    resolved,       \* nodes whose reference was handed to resolve_component
    expired,        \* nodes whose invocation exceeded the deadline
    runs,           \* WorkflowRunStore._runs: the run records, by run id
    lock,           \* WorkflowRunStore._lock is held
    bg,             \* the background thread of each run (_execute_run)
    client,         \* the thread calling start_run
    poller,         \* the thread polling get_logs
    drawn,          \* per run, the sequence numbers _append_log has assigned
    options,        \* the caller's WorkflowRuntimeOptions object, or None
    heap,           \* the objects the run store owns: its deep copies
    now,            \* what datetime.utcnow() reads, in microseconds
    loader,         \* a call of a function of runtime/loader.py: its arguments and outcome
    remote,         \* a call of RemoteWorkflowExecutor.run: its position and what it holds
    runtime         \* os.environ, sys.path and a use of runtime_configuration

None == "None"
NoPlan == [pending |-> TRUE]
NoNode == [nothing |-> TRUE]
NoFuture == [unset |-> TRUE]
NoCall == [uncalled |-> TRUE]
NoResult == [absent |-> TRUE]
NoResponse == [unanswered |-> TRUE]

(***************************************************************************)
(* Python values as the loader sees them.  A string is a sequence of       *)
(* characters; the words "datapizza" and "tools" stand for runs of letters *)
(* (no dot, no blank, neither a prefix of the other), so that startswith,  *)
(* strip and rpartition can be computed as Python computes them.  A dict   *)
(* is the sequence of its (key, value) items in insertion order.           *)
(***************************************************************************)
PyNone == [type |-> "NoneType"]
PyInt(n) == [type |-> "int", value |-> n]
PyStr(chars) == [type |-> "str", chars |-> chars]
PyList(items) == [type |-> "list", items |-> items]
PyDict(items) == [type |-> "dict", items |-> items]
PyTuple(items) == [type |-> "tuple", items |-> items]
PyBytes(chars) == [type |-> "bytes", chars |-> chars]
PySet(items) == [type |-> "set", items |-> items]
\* an instance with a __dict__: its attributes in definition order
PyObject(attrs) == [type |-> "object", items |-> attrs]
\* an instance of a dataclass, and a dataclass itself (the class)
PyDataclass(fields) == [type |-> "dataclass", items |-> fields]
PyDataclassType == [type |-> "dataclass_type"]
\* inside a container: the container itself (x = []; x.append(x))
PySelf == [type |-> "self"]

\* DatapizzaWorkflowExecutor.__init__: node_timeout = 30.0 seconds
DefaultNodeTimeout == 3000

(***************************************************************************)
(* Graph model (models.py).  validate_graph rejects an empty node list,    *)
(* duplicated node ids and edges whose endpoints are not declared, so the  *)
(* engine only ever sees definitions that satisfy ValidateGraph.           *)
(***************************************************************************)
NodeList(n) == [i \in 1..n |-> i]

NodeSet(wf) == {wf.nodes[i] : i \in DOMAIN wf.nodes}

WorkflowEdgeDefinition(ids) == [source : ids, target : ids]

SeqsUpTo(S, k) == UNION {[1..m -> S] : m \in 0..k}

ValidateGraph(wf) ==
    /\ Len(wf.nodes) >= 1
    /\ \A i, j \in DOMAIN wf.nodes : wf.nodes[i] = wf.nodes[j] => i = j
    /\ \A i \in DOMAIN wf.edges :
          /\ wf.edges[i].source \in NodeSet(wf)
          /\ wf.edges[i].target \in NodeSet(wf)

WorkflowDefinition(maxN, maxE) ==
    {wf \in UNION {[nodes : {NodeList(n)},
                    edges : SeqsUpTo(WorkflowEdgeDefinition(1..n), maxE)]
                   : n \in 1..maxN} : ValidateGraph(wf)}

(***************************************************************************)
(* Schedule compiler: Kahn's algorithm as _build_execution_plan runs it.   *)
(***************************************************************************)
\* incoming_counts after the loop over workflow.edges
IncomingCounts(wf) ==
    [n \in NodeSet(wf) |->
        Cardinality({i \in DOMAIN wf.edges : wf.edges[i].target = n})]

\* adjacency[n]: targets of the edges leaving n, in edge order
Adjacency(wf, n) ==
    LET out == SelectSeq(wf.edges, LAMBDA e : e.source = n)
    IN  [i \in 1..Len(out) |-> out[i].target]

\* variant of incoming_map keyed by the source of each edge instead of its target
IncomingMapBySource(wf) ==
    [n \in NodeSet(wf) |->
        LET out == SelectSeq(wf.edges, LAMBDA e : e.source = n)
        IN  [i \in 1..Len(out) |-> out[i].target]]

\* incoming_map: sources of the edges entering each node, in edge order
IncomingMap(wf) ==
    [n \in NodeSet(wf) |->
        LET inc == SelectSeq(wf.edges, LAMBDA e : e.target = n)
        IN  [i \in 1..Len(inc) |-> inc[i].source]]

\* the seed of the queue: zero in-degree nodes in declaration order
SeedQueue(wf) ==
    LET counts == IncomingCounts(wf)
    IN  SelectSeq(wf.nodes, LAMBDA n : counts[n] = 0)

\* variant of the inner loop that enqueues a downstream node at every decrement
RECURSIVE RelaxEager(_, _, _)
RelaxEager(downs, counts, queue) ==
    IF downs = <<>> THEN [counts |-> counts, queue |-> queue]
    ELSE LET d  == Head(downs)
             c2 == [counts EXCEPT ![d] = @ - 1]
         IN  RelaxEager(Tail(downs), c2, Append(queue, d))

\* the inner loop "for downstream in adjacency[node_id]"
RECURSIVE Relax(_, _, _)
Relax(downs, counts, queue) ==
    IF downs = <<>> THEN [counts |-> counts, queue |-> queue]
    ELSE LET d  == Head(downs)
             c2 == [counts EXCEPT ![d] = @ - 1]
         IN  Relax(Tail(downs), c2,
                   IF c2[d] = 0 THEN Append(queue, d) ELSE queue)

\* variant of the loop that takes the newest node of the queue (queue.pop())
RECURSIVE KahnLoopNewestFirst(_, _, _, _)
KahnLoopNewestFirst(wf, queue, counts, ordered) ==
    IF queue = <<>> THEN ordered
    ELSE LET node_id == queue[Len(queue)]
             r == Relax(Adjacency(wf, node_id), counts, SubSeq(queue, 1, Len(queue) - 1))
         IN  KahnLoopNewestFirst(wf, r.queue, r.counts, Append(ordered, node_id))

\* the loop "while queue"
RECURSIVE KahnLoop(_, _, _, _)
KahnLoop(wf, queue, counts, ordered) ==
    IF queue = <<>> THEN ordered
    ELSE LET node_id == Head(queue)
             r == Relax(Adjacency(wf, node_id), counts, Tail(queue))
         IN  KahnLoop(wf, r.queue, r.counts, Append(ordered, node_id))

CyclesError == "workflow contains cycles or unresolved dependencies"

\* variant of the compiler without the final length check
BuildExecutionPlanUnchecked(wf) ==
    [ok |-> TRUE,
     order |-> KahnLoop(wf, SeedQueue(wf), IncomingCounts(wf), <<>>),
     incoming |-> IncomingMap(wf)]

BuildExecutionPlan(wf) ==
    LET ordered_nodes == KahnLoop(wf, SeedQueue(wf), IncomingCounts(wf), <<>>)
    IN  IF Len(ordered_nodes) # Len(wf.nodes)
        THEN [ok |-> FALSE, error |-> CyclesError]
        ELSE [ok |-> TRUE, order |-> ordered_nodes, incoming |-> IncomingMap(wf)]

(***************************************************************************)
(* The schedule compiler applied to every bounded graph.                   *)
(***************************************************************************)
planVars == <<workflow, plan>>

execVars == <<node_timeout, pc, idx, steps, status, raw_results, results, cur,
              worker, future, call, invoked, resolved, expired>>

storeVars == <<runs, lock, bg, client, poller, drawn>>

\* the rest of the process: the caller's options, the store's objects, the
\* clock, the loader, the remote executor, the environment and search path
hostVars == <<options, heap, now, loader, remote, runtime>>

vars == <<planVars, execVars, storeVars, hostVars>>

\* a poller that has not asked yet: no cursor, nothing received
PollerIdle ==
    [pc |-> "idle", run |-> 0, after |-> <<>>, logs |-> <<>>, received |-> <<>>]

ClientIdle ==
    [pc |-> "idle", op |-> "none", asked |-> 0, run |-> 0, response |-> NoResponse]

\* the run store after construction
StoreIdle ==
    /\ runs = <<>>
    /\ lock = FALSE
    /\ bg = <<>>
    /\ client = ClientIdle
    /\ poller = PollerIdle
    /\ drawn = <<>>

\* readings of datetime.utcnow() in microseconds, around a whole second
MicrosecondsPerSecond == 1000000

ClockReadings ==
    {MicrosecondsPerSecond - 1, MicrosecondsPerSecond, MicrosecondsPerSecond + 1}

ClockStart == MicrosecondsPerSecond - 1

\* a loader that has not been called
NoLoad == [uncalled |-> TRUE]

\* a remote executor whose run() has not been called
NoRequest == [pc |-> "idle"]

\* a process in which runtime_configuration is not used
NoContext == [pc |-> "unused"]

\* no options, no copy taken yet, the clock at its first reading
HostIdle ==
    /\ options = PyNone
    /\ heap = <<>>
    /\ now = ClockStart
    /\ loader = NoLoad
    /\ remote = NoRequest
    /\ runtime = NoContext

\* the executor before run() is called
ExecIdle ==
    /\ pc = "idle"
    /\ idx = 0
    /\ steps = <<>>
    /\ status = "success"
    /\ raw_results = <<>>
    /\ results = <<>>
    /\ cur = NoNode
    /\ worker = "idle"
    /\ future = NoFuture
    /\ call = NoCall
    /\ invoked = <<>>
    /\ resolved = {}
    /\ expired = {}

PlanInit ==
    /\ workflow \in WorkflowDefinition(MaxNodes, MaxEdges)
    /\ plan = NoPlan
    /\ node_timeout = DefaultNodeTimeout
    /\ ExecIdle
    /\ StoreIdle
    /\ HostIdle

Compile ==
    /\ plan = NoPlan
    /\ plan' = BuildExecutionPlan(workflow)
    /\ UNCHANGED <<workflow, execVars, storeVars, hostVars>>

PlanNext == Compile

PlanSpec == PlanInit /\ [][PlanNext]_vars

(***************************************************************************)
(* Local executor: DatapizzaWorkflowExecutor.run.                          *)
(*                                                                         *)
(* A node's data (component reference, parameters payload) and what its    *)
(* reference resolves to (target, signature) are drawn when the drive loop *)
(* reads them; how the capability behaves is the worker's nondeterminism.  *)
(***************************************************************************)
Range(seq) == {seq[i] : i \in DOMAIN seq}

RECURSIVE SortedSeq(_)
SortedSeq(S) ==
    IF S = {} THEN <<>>
    ELSE LET m == CHOOSE x \in S : \A y \in S : x <= y
         IN  <<m>> \o SortedSeq(S \ {m})

\* the characters of the strings of the model
Characters == {"datapizza", "tools", ".", " "}

\* bool(value)
Truthy(v) ==
    CASE v.type = "NoneType" -> FALSE
      [] v.type = "int" -> v.value # 0
      [] v.type = "str" -> v.chars # <<>>
      [] OTHER -> v.items # <<>>

\* str.startswith
StartsWith(s, prefix) ==
    /\ Len(s) >= Len(prefix)
    /\ SubSeq(s, 1, Len(prefix)) = prefix

\* str.strip: leading and trailing blanks removed
RECURSIVE LStrip(_)
LStrip(s) == IF s # <<>> /\ Head(s) = " " THEN LStrip(Tail(s)) ELSE s

RECURSIVE RStrip(_)
RStrip(s) ==
    IF s # <<>> /\ s[Len(s)] = " " THEN RStrip(SubSeq(s, 1, Len(s) - 1)) ELSE s

Strip(s) == RStrip(LStrip(s))

\* str.rpartition: split at the last separator; without one the head and
\* the separator are empty
RPartition(s, sep) ==
    LET hits == {i \in DOMAIN s : s[i] = sep}
    IN  IF hits = {}
        THEN [head |-> <<>>, sep |-> <<>>, tail |-> s]
        ELSE LET i == CHOOSE h \in hits : \A k \in hits : k <= h
             IN  [head |-> SubSeq(s, 1, i - 1), sep |-> <<sep>>,
                  tail |-> SubSeq(s, i + 1, Len(s))]

\* str(key) of a dict key: a string is itself, an integer its decimal digits
DecimalDigits == <<"0", "1", "2", "3", "4", "5", "6", "7", "8", "9">>

RECURSIVE StrOfNat(_)
StrOfNat(n) ==
    IF n < Len(DecimalDigits) THEN <<DecimalDigits[n + 1]>>
    ELSE StrOfNat(n \div Len(DecimalDigits)) \o <<DecimalDigits[(n % Len(DecimalDigits)) + 1]>>

Str(v) == IF v.type = "str" THEN v ELSE PyStr(StrOfNat(v.value))

\* the prefix resolve_component insists on
NamespacePrefix == <<"datapizza", ".">>

\* what importlib.import_module finds in the process: the package itself,
\* which exposes the attribute "tools" and nothing else
ImportableModules == {<<"datapizza">>}

HasAttribute(module_path, attribute) ==
    module_path = <<"datapizza">> /\ attribute = <<"tools">>

\* data["component"]: absent, not a string, blank, outside the namespace,
\* under a module that cannot be imported, naming an attribute the module
\* lacks, without an attribute, resolvable
ComponentRefs ==
    {PyNone,
     PyInt(7),
     PyStr(<<" ">>),
     PyStr(<<"tools", ".", "datapizza">>),
     PyStr(<<"datapizza", ".", "tools", ".", "tools">>),
     PyStr(<<"datapizza", ".", "datapizza">>),
     PyStr(<<"datapizza", ".">>),
     PyStr(<<"datapizza", ".", "tools">>)}

\* data["parameters"]: absent, an empty mapping, mappings with string and
\* integer keys (two of them colliding once coerced), a list, a number
ParameterPayloads ==
    {PyNone,
     PyDict(<<>>),
     PyDict(<< <<PyStr(<<"tools">>), PyInt(1)>>, <<PyInt(2), PyInt(2)>> >>),
     PyDict(<< <<PyInt(1), PyInt(1)>>, <<PyStr(<<"1">>), PyInt(2)>> >>),
     PyList(<<PyInt(1)>>),
     PyInt(0)}

\* what a resolvable reference denotes
Targets == {"function", "class", "class_ctor_raises", "noncallable"}

\* inspect.Parameter.kind
ParameterKinds ==
    {"POSITIONAL_ONLY", "POSITIONAL_OR_KEYWORD", "VAR_POSITIONAL", "KEYWORD_ONLY",
     "VAR_KEYWORD"}

\* a name is a string of one word
Name(word) == PyStr(<<word>>)

Parameter(word, kind) == [name |-> Name(word), kind |-> kind]

\* inspect.signature(callable_obj): the parameters in declaration order, or
\* ValueError for a callable that exposes no signature (builtins such as max)
Signature(parameters) == [ok |-> TRUE, parameters |-> parameters]

NoSignature == [ok |-> FALSE, raised |-> "ValueError", error |-> "no signature found"]

\* the callable's signature in a run: no parameter at all, the slots
\* "parameters" and "inputs", or none that inspect can provide
Signatures ==
    {Signature(<<>>),
     Signature(<<Parameter("parameters", "POSITIONAL_OR_KEYWORD"),
                 Parameter("inputs", "POSITIONAL_OR_KEYWORD")>>),
     NoSignature}

\* what a capability can return: a value of primitives and containers, or a
\* self-referential container
ResultKinds == {"plain", "cyclic"}

\* what a capability can raise
ExceptionKinds ==
    {"Exception", "ComponentInvocationError", "FuturesTimeoutError", "SystemExit"}

\* timeouts in hundredths of a second: 0.1s, 0.18s and the default
NodeTimeouts == {10, 18, DefaultNodeTimeout}

\* the pseudo node id "__workflow__" of the step that reports a bad graph
WorkflowStepId == 0

\* f"{x:.1f}" of a duration given in hundredths: the number of tenths shown
FormatOneDecimal(h) == (h + 5) \div 10

MissingComponentDetails == [text |-> "node is missing a 'data.component' reference"]
InvalidParametersDetails == [text |-> "component parameters must be expressed as a mapping"]
MissingUpstreamDetails(missing) ==
    [text |-> "missing upstream results from nodes", nodes |-> missing]
NotCallableDetails == [text |-> "resolved component is not callable"]
UnexpectedParametersDetails ==
    [text |-> "component does not accept parameters but configuration was provided"]
TimeoutDetails(t) ==
    [text |-> "component execution timed out after", tenths |-> FormatOneDecimal(t)]
UnexpectedErrorDetails(msg) ==
    [text |-> "component raised an unexpected error", cause |-> msg]
InvalidGraphDetails(msg) == [text |-> "Invalid workflow graph", cause |-> msg]
CompletedDetails(path) == [text |-> "executed successfully", component |-> path]

\* variant of _extract_component_path that takes a blank string for a path
ExtractComponentPathUnstripped(c) ==
    IF c = PyNone THEN PyNone
    ELSE IF c.type # "str" \/ ~Truthy(c) THEN PyNone
    ELSE c

\* _extract_component_path: None unless the value is a string with
\* something other than blanks in it; the string is returned as it is
ExtractComponentPath(c) ==
    IF c = PyNone THEN PyNone
    ELSE IF c.type # "str" \/ ~Truthy(PyStr(Strip(c.chars))) THEN PyNone
    ELSE c

\* {str(key): value for key, value in parameters.items()}: a key that
\* coerces to one already present replaces its value and keeps its place
RECURSIVE CoerceKeys(_, _)
CoerceKeys(items, acc) ==
    IF items = <<>> THEN acc
    ELSE LET key == Str(Head(items)[1])
             value == Head(items)[2]
             at == {i \in DOMAIN acc : acc[i][1] = key}
         IN  CoerceKeys(Tail(items),
                        IF at = {} THEN Append(acc, <<key, value>>)
                        ELSE [i \in DOMAIN acc |->
                                 IF i \in at THEN <<key, value>> ELSE acc[i]])

\* variant of normalise_parameters that takes every falsy payload for an
\* absent one
NormaliseParametersFalsy(p) ==
    IF ~Truthy(p) THEN [ok |-> TRUE, value |-> PyDict(<<>>)]
    ELSE IF p.type = "dict"
    THEN [ok |-> TRUE, value |-> PyDict(CoerceKeys(p.items, <<>>))]
    ELSE [ok |-> FALSE, error |-> InvalidParametersDetails]

\* normalise_parameters
NormaliseParameters(p) ==
    IF p = PyNone THEN [ok |-> TRUE, value |-> PyDict(<<>>)]
    ELSE IF p.type = "dict"
    THEN [ok |-> TRUE, value |-> PyDict(CoerceKeys(p.items, <<>>))]
    ELSE [ok |-> FALSE, error |-> InvalidParametersDetails]

\* variant of the checks that lets any namespace through
CheckReferenceAnyNamespace(path) ==
    IF ~Truthy(path) \/ path.type # "str"
    THEN [ok |-> FALSE,
          error |-> [text |-> "component path must be a non-empty string"]]
    ELSE LET parts == RPartition(path.chars, ".")
         IN  IF parts.head = <<>> \/ parts.tail = <<>>
             THEN [ok |-> FALSE,
                   error |-> [text |-> "is not a valid fully-qualified component reference",
                              path |-> path.chars]]
             ELSE [ok |-> TRUE, module_path |-> parts.head, attribute |-> parts.tail]

\* resolve_component, lines 25-37: what is checked before anything is
\* imported, and the split into module path and attribute
CheckReference(path) ==
    IF ~Truthy(path) \/ path.type # "str"
    THEN [ok |-> FALSE,
          error |-> [text |-> "component path must be a non-empty string"]]
    ELSE IF ~StartsWith(path.chars, NamespacePrefix)
    THEN [ok |-> FALSE,
          error |-> [text |-> "component resolution is restricted to the 'datapizza' namespace"]]
    ELSE LET parts == RPartition(path.chars, ".")
         IN  IF parts.head = <<>> \/ parts.tail = <<>>
             THEN [ok |-> FALSE,
                   error |-> [text |-> "is not a valid fully-qualified component reference",
                              path |-> path.chars]]
             ELSE [ok |-> TRUE, module_path |-> parts.head, attribute |-> parts.tail]

\* variant of the lookup that answers None for an attribute the module lacks
LoadAttributeOrNone(module_path, attribute) ==
    IF module_path \notin ImportableModules
    THEN [ok |-> FALSE, imports |-> <<module_path>>,
          error |-> [text |-> "unable to import module", module |-> module_path]]
    ELSE [ok |-> TRUE, imports |-> <<module_path>>,
          component |-> [module |-> module_path, attribute |-> attribute]]

\* resolve_component, lines 39-53: import_module, then getattr
LoadAttribute(module_path, attribute) ==
    IF module_path \notin ImportableModules
    THEN [ok |-> FALSE, imports |-> <<module_path>>,
          error |-> [text |-> "unable to import module", module |-> module_path]]
    ELSE IF ~HasAttribute(module_path, attribute)
    THEN [ok |-> FALSE, imports |-> <<module_path>>,
          error |-> [text |-> "module does not expose attribute",
                     module |-> module_path, attribute |-> attribute]]
    ELSE [ok |-> TRUE, imports |-> <<module_path>>,
          component |-> [module |-> module_path, attribute |-> attribute]]

\* resolve_component: the outcome, and the modules handed to
\* importlib.import_module on the way
ResolveComponent(path) ==
    LET checked == CheckReference(path)
    IN  IF ~checked.ok
        THEN [ok |-> FALSE, imports |-> <<>>, error |-> checked.error]
        ELSE LoadAttribute(checked.module_path, checked.attribute)

\* name in signature.parameters
Declares(signature, name) ==
    \E i \in DOMAIN signature.parameters : signature.parameters[i].name = name

\* accepts_var_keyword, lines 110-113
AcceptsVarKeyword(signature) ==
    \E i \in DOMAIN signature.parameters : signature.parameters[i].kind = "VAR_KEYWORD"

\* name in kwargs
HasKey(items, key) == \E i \in DOMAIN items : items[i][1] = key

\* {"parameters": parameters, "inputs": inputs}
ContextPair(parameters, inputs) ==
    PyDict(<< <<Name("parameters"), parameters>>, <<Name("inputs"), inputs>> >>)

\* the five tests of lines 117-126 in their order: the slot, its value, and
\* whether the test also asks that the slot is not in kwargs yet
ConventionalSlots(parameters, inputs) ==
    << [name |-> Name("context"), value |-> ContextPair(parameters, inputs), unless_bound |-> FALSE],
       [name |-> Name("payload"), value |-> ContextPair(parameters, inputs), unless_bound |-> TRUE],
       [name |-> Name("inputs"), value |-> inputs, unless_bound |-> FALSE],
       [name |-> Name("upstream"), value |-> inputs, unless_bound |-> TRUE],
       [name |-> Name("parameters"), value |-> parameters, unless_bound |-> FALSE] >>

\* variant of lines 117-126 as an if/elif chain: the first declared slot wins
RECURSIVE BindSlotsFirstMatch(_, _, _)
BindSlotsFirstMatch(slots, signature, kwargs) ==
    IF slots = <<>> THEN kwargs
    ELSE LET slot == Head(slots)
         IN  IF Declares(signature, slot.name) /\ kwargs = <<>>
             THEN BindSlotsFirstMatch(Tail(slots), signature,
                                      Append(kwargs, <<slot.name, slot.value>>))
             ELSE BindSlotsFirstMatch(Tail(slots), signature, kwargs)

\* lines 117-126
RECURSIVE BindSlots(_, _, _)
BindSlots(slots, signature, kwargs) ==
    IF slots = <<>> THEN kwargs
    ELSE LET slot == Head(slots)
         IN  IF /\ Declares(signature, slot.name)
                /\ slot.unless_bound => ~HasKey(kwargs, slot.name)
             THEN BindSlots(Tail(slots), signature,
                            Append(kwargs, <<slot.name, slot.value>>))
             ELSE BindSlots(Tail(slots), signature, kwargs)

\* the loop of lines 128-132
RECURSIVE BindParameters(_, _, _)
BindParameters(items, signature, kwargs) ==
    IF items = <<>> THEN kwargs
    ELSE LET name == Head(items)[1]
             value == Head(items)[2]
         IN  IF HasKey(kwargs, name)
             THEN BindParameters(Tail(items), signature, kwargs)
             ELSE IF Declares(signature, name) \/ AcceptsVarKeyword(signature)
             THEN BindParameters(Tail(items), signature, Append(kwargs, <<name, value>>))
             ELSE BindParameters(Tail(items), signature, kwargs)

\* build_component_call_kwargs
BuildComponentCallKwargs(signature, parameters, inputs) ==
    IF ~signature.ok
    THEN [ok |-> FALSE, raised |-> signature.raised, error |-> [text |-> signature.error]]
    ELSE LET kwargs == BindParameters(parameters.items, signature,
                                      BindSlots(ConventionalSlots(parameters, inputs),
                                                signature, <<>>))
         IN  IF kwargs = <<>> /\ Truthy(parameters) /\ signature.parameters = <<>>
             THEN [ok |-> FALSE, raised |-> "ComponentInvocationError",
                   error |-> UnexpectedParametersDetails]
             ELSE [ok |-> TRUE, kwargs |-> PyDict(kwargs)]

\* _invoke_component up to executor.submit: what it raises, or the kwargs
PrepareInvocation(target, sig, parameters, inputs) ==
    IF target = "class_ctor_raises"
    THEN [ok |-> FALSE, raised |-> "Exception",
          error |-> UnexpectedErrorDetails("constructor failed")]
    ELSE IF target = "noncallable"
    THEN [ok |-> FALSE, raised |-> "ComponentInvocationError",
          error |-> NotCallableDetails]
    ELSE LET b == BuildComponentCallKwargs(sig, parameters, inputs)
         IN  IF b.ok THEN [ok |-> TRUE, kwargs |-> b.kwargs]
             ELSE IF b.raised = "ComponentInvocationError"
             THEN [ok |-> FALSE, raised |-> "ComponentInvocationError",
                   error |-> b.error]
             ELSE [ok |-> FALSE, raised |-> "Exception",
                   error |-> UnexpectedErrorDetails(b.error.text)]

\* the value a capability returned: a tuple, or a list that contains itself
ReturnedValue(v) ==
    IF v.kind = "cyclic" THEN PyList(<<PySelf>>) ELSE PyTuple(<<PyInt(v.by)>>)

\* str(result) for a value of no other known shape
Repr(v) == PyStr(<<v.type>>)

\* vars(result).items() without the names that start with "_"
PublicAttributes(attrs) == SelectSeq(attrs, LAMBDA a : ~StartsWith(a[1].chars, <<"_">>))

\* normalise_result, lines 68-99, in the order of its tests: Mapping,
\* Sequence, dataclass (asdict raises TypeError for the class itself),
\* primitives, __dict__, str().  Descending into a container that contains
\* itself never ends: RecursionError.
RECURSIVE NormaliseResult(_)
RECURSIVE NormaliseEach(_, _)
NormaliseEach(values, acc) ==
    IF values = <<>> THEN [ok |-> TRUE, values |-> acc]
    ELSE LET n == NormaliseResult(Head(values))
         IN  IF n.ok THEN NormaliseEach(Tail(values), Append(acc, n.value)) ELSE n

NormaliseResult(result) ==
    CASE result.type = "self" -> [ok |-> FALSE, raised |-> "RecursionError"]
      [] result.type = "dict" ->
            LET n == NormaliseEach([i \in DOMAIN result.items |-> result.items[i][2]], <<>>)
            IN  IF n.ok
                THEN [ok |-> TRUE,
                      value |-> PyDict(CoerceKeys([i \in DOMAIN result.items |->
                                                      <<result.items[i][1], n.values[i]>>],
                                                  <<>>))]
                ELSE n
      [] result.type \in {"list", "tuple"} ->
            LET n == NormaliseEach(result.items, <<>>)
            IN  IF n.ok THEN [ok |-> TRUE, value |-> PyList(n.values)] ELSE n
      [] result.type = "dataclass_type" -> [ok |-> FALSE, raised |-> "TypeError"]
      [] result.type = "dataclass" -> NormaliseResult(PyDict(result.items))
      [] result.type \in {"str", "bytes", "int", "NoneType"} ->
            [ok |-> TRUE, value |-> result]
      [] result.type = "object" ->
            LET public == PublicAttributes(result.items)
                n == NormaliseEach([i \in DOMAIN public |-> public[i][2]], <<>>)
            IN  IF n.ok
                THEN [ok |-> TRUE,
                      value |-> PyDict([i \in DOMAIN public |-> <<public[i][1], n.values[i]>>])]
                ELSE n
      [] OTHER -> [ok |-> TRUE, value |-> Repr(result)]

\* which except clause of run() catches an exception coming out of
\* _invoke_component; "escapes" when none does
HandlerFor(kind) ==
    IF kind = "FuturesTimeoutError" THEN "timeout"
    ELSE IF kind = "ComponentInvocationError" THEN "invocation_error"
    ELSE IF kind = "Exception" THEN "unexpected_exception"
    ELSE "escapes"

ExecInit ==
    /\ workflow \in WorkflowDefinition(MaxRunNodes, MaxRunEdges)
    /\ plan = NoPlan
    /\ node_timeout \in NodeTimeouts
    /\ ExecIdle
    /\ StoreIdle
    /\ HostIdle

\* variant of run() that reports an unschedulable graph once per node
RunStartPerNode ==
    /\ pc = "idle"
    /\ plan' = BuildExecutionPlan(workflow)
    /\ IF plan'.ok
       THEN /\ pc' = "loop"
            /\ idx' = 1
            /\ UNCHANGED <<steps, status>>
       ELSE /\ pc' = "returned"
            /\ steps' = [i \in DOMAIN workflow.nodes |->
                            [nodeId |-> workflow.nodes[i], status |-> "failed",
                             details |-> InvalidGraphDetails(plan'.error)]]
            /\ status' = "failure"
            /\ UNCHANGED idx
    /\ UNCHANGED <<workflow, node_timeout, raw_results, results, cur, worker,
                   future, call, invoked, resolved, expired>>
    /\ UNCHANGED <<storeVars, hostVars>>

\* run(), lines 76-122: build the plan; a ValueError ends the run with the
\* single "__workflow__" step
RunStart ==
    /\ pc = "idle"
    /\ plan' = BuildExecutionPlan(workflow)
    /\ IF plan'.ok
       THEN /\ pc' = "loop"
            /\ idx' = 1
            /\ UNCHANGED <<steps, status>>
       ELSE /\ pc' = "returned"
            /\ steps' = Append(steps, [nodeId |-> WorkflowStepId, status |-> "failed",
                                       details |-> InvalidGraphDetails(plan'.error)])
            /\ status' = "failure"
            /\ UNCHANGED idx
    /\ UNCHANGED <<workflow, node_timeout, raw_results, results, cur, worker,
                   future, call, invoked, resolved, expired>>
    /\ UNCHANGED <<storeVars, hostVars>>

\* variant of a node failure that leaves the run status untouched
FailNodeKeepsStatus(node, details) ==
    /\ steps' = Append(steps, [nodeId |-> node, status |-> "failed", details |-> details])
    /\ status' = status
    /\ pc' = "returned"

\* variant of a node failure without the break: the loop goes on
FailNodeContinues(node, details) ==
    /\ steps' = Append(steps, [nodeId |-> node, status |-> "failed", details |-> details])
    /\ status' = "failure"
    /\ pc' = "loop"

\* a failed step followed by break and _finalise_run
FailNode(node, details) ==
    /\ steps' = Append(steps, [nodeId |-> node, status |-> "failed", details |-> details])
    /\ status' = "failure"
    /\ pc' = "returned"

\* variant of the inputs that hands every result recorded so far to the node
InputsPayloadOfAll(upstream_nodes, recorded) ==
    [u \in DOMAIN recorded |-> recorded[u]]

\* lines 181-185: {upstream: raw_results[upstream] for upstream in
\* upstream_nodes if upstream in raw_results}
InputsPayload(upstream_nodes, recorded) ==
    [u \in {x \in Range(upstream_nodes) : x \in DOMAIN recorded} |-> recorded[u]]

\* variant of the upstream check that finds nothing missing
MissingDependenciesIgnored(upstream_nodes, inputs_payload) == <<>>

\* line 186: sorted(set(upstream_nodes) - set(inputs_payload))
MissingDependencies(upstream_nodes, inputs_payload) ==
    SortedSeq(Range(upstream_nodes) \ DOMAIN inputs_payload)

\* one iteration of the drive loop up to executor.submit (lines 124-248,
\* 404-422)
ExamineNode ==
    /\ pc = "loop"
    /\ idx <= Len(plan.order)
    /\ \E c \in ComponentRefs, p \in ParameterPayloads :
        LET node == plan.order[idx]
            component_path == ExtractComponentPath(c)
            parameters == NormaliseParameters(p)
            upstream_nodes == plan.incoming[node]
            inputs_payload == InputsPayload(upstream_nodes, raw_results)
            missing_dependencies == MissingDependencies(upstream_nodes, inputs_payload)
            component == ResolveComponent(component_path)
            data == [node |-> node, component |-> c, parameters |-> p]
            parsed == [node |-> node, component |-> c, parameters |-> p,
                       parsed |-> parameters.value]
        IN  IF component_path = PyNone
            THEN /\ FailNode(node, MissingComponentDetails)
                 /\ cur' = data
                 /\ UNCHANGED <<worker, call, invoked, resolved>>
            ELSE IF ~parameters.ok
            THEN /\ FailNode(node, parameters.error)
                 /\ cur' = data
                 /\ UNCHANGED <<worker, call, invoked, resolved>>
            ELSE IF missing_dependencies # <<>>
            THEN /\ FailNode(node, MissingUpstreamDetails(missing_dependencies))
                 /\ cur' = parsed
                 /\ UNCHANGED <<worker, call, invoked, resolved>>
            ELSE IF ~component.ok
            THEN /\ FailNode(node, component.error)
                 /\ cur' = parsed
                 /\ resolved' = resolved \cup {node}
                 /\ UNCHANGED <<worker, call, invoked>>
            ELSE \E t \in Targets, s \in Signatures :
                LET prepared == PrepareInvocation(t, s, parameters.value, inputs_payload)
                    env == [node |-> node, component |-> c, parameters |-> p,
                            parsed |-> parameters.value,
                            target |-> t, signature |-> s]
                IN  IF ~prepared.ok
                    THEN /\ FailNode(node, prepared.error)
                         /\ cur' = env
                         /\ resolved' = resolved \cup {node}
                         /\ UNCHANGED <<worker, call, invoked>>
                    ELSE /\ pc' = "waiting"
                         /\ worker' \in {"running", "hung"}
                         /\ call' = [node |-> node, kwargs |-> prepared.kwargs]
                         /\ invoked' = Append(invoked, node)
                         /\ resolved' = resolved \cup {node}
                         /\ cur' = env
                         /\ UNCHANGED <<steps, status>>
    /\ UNCHANGED <<workflow, plan, node_timeout, idx, raw_results, results,
                   future, expired>>
    /\ UNCHANGED <<storeVars, hostVars>>

\* the capability returns on its pool thread
WorkerReturns ==
    /\ worker = "running"
    /\ \E k \in ResultKinds :
          future' = [value |-> [by |-> call.node, kind |-> k]]
    /\ worker' = "finished"
    /\ UNCHANGED <<workflow, plan, node_timeout, pc, idx, steps, status,
                   raw_results, results, cur, call, invoked, resolved, expired>>
    /\ UNCHANGED <<storeVars, hostVars>>

\* the capability raises on its pool thread
WorkerRaises ==
    /\ worker = "running"
    /\ \E e \in ExceptionKinds :
          future' = [exception |-> e, message |-> "capability failed"]
    /\ worker' = "finished"
    /\ UNCHANGED <<workflow, plan, node_timeout, pc, idx, steps, status,
                   raw_results, results, cur, call, invoked, resolved, expired>>
    /\ UNCHANGED <<storeVars, hostVars>>

\* future.result(timeout=node_timeout) gives up: the TimeoutError leaves the
\* "with ThreadPoolExecutor" block, whose exit is shutdown(wait=True)
DeadlineExpires ==
    /\ pc = "waiting"
    /\ worker \in {"running", "hung"}
    /\ pc' = "joining"
    /\ expired' = expired \cup {call.node}
    /\ UNCHANGED <<workflow, plan, node_timeout, idx, steps, status, raw_results,
                   results, cur, worker, future, call, invoked, resolved>>
    /\ UNCHANGED <<storeVars, hostVars>>

\* variant of the timeout handling that consumes what the capability
\* returned after the deadline
JoinReturnsKeepsResult ==
    /\ pc = "joining"
    /\ worker = "finished"
    /\ worker' = "idle"
    /\ IF "value" \in DOMAIN future
       THEN /\ raw_results' = (call.node :> future.value) @@ raw_results
            /\ FailNode(call.node, TimeoutDetails(node_timeout))
       ELSE /\ FailNode(call.node, TimeoutDetails(node_timeout))
            /\ UNCHANGED raw_results
    /\ UNCHANGED <<workflow, plan, node_timeout, idx, results, cur,
                   future, call, invoked, resolved, expired>>
    /\ UNCHANGED <<storeVars, hostVars>>

\* shutdown(wait=True) has joined the pool thread; the TimeoutError reaches
\* the except clause of run() (lines 249-277)
JoinReturns ==
    /\ pc = "joining"
    /\ worker = "finished"
    /\ FailNode(call.node, TimeoutDetails(node_timeout))
    /\ worker' = "idle"
    /\ UNCHANGED <<workflow, plan, node_timeout, idx, raw_results, results, cur,
                   future, call, invoked, resolved, expired>>
    /\ UNCHANGED <<storeVars, hostVars>>

\* future.result returns in time: the result is recorded and normalised
\* (lines 331-350), or the exception is handled (lines 249-329)
FutureResult ==
    /\ pc = "waiting"
    /\ worker = "finished"
    /\ worker' = "idle"
    /\ LET node == call.node IN
       IF "value" \in DOMAIN future
       THEN LET n == NormaliseResult(ReturnedValue(future.value)) IN
            /\ raw_results' = (node :> future.value) @@ raw_results
            /\ IF n.ok
               THEN /\ results' = (node :> n.value) @@ results
                    /\ steps' = Append(steps, [nodeId |-> node, status |-> "completed",
                                               details |-> CompletedDetails(cur.component)])
                    /\ idx' = idx + 1
                    /\ pc' = "loop"
                    /\ UNCHANGED status
               ELSE /\ pc' = "raised"
                    /\ UNCHANGED <<results, steps, idx, status>>
       ELSE LET h == HandlerFor(future.exception) IN
            /\ IF h = "timeout" THEN FailNode(node, TimeoutDetails(node_timeout))
               ELSE IF h = "invocation_error"
               THEN FailNode(node, [text |-> future.message])
               ELSE IF h = "unexpected_exception"
               THEN FailNode(node, UnexpectedErrorDetails(future.message))
               ELSE /\ pc' = "raised"
                    /\ UNCHANGED <<steps, status>>
            /\ UNCHANGED <<raw_results, results, idx>>
    /\ UNCHANGED <<workflow, plan, node_timeout, cur, future, call, invoked,
                   resolved, expired>>
    /\ UNCHANGED <<storeVars, hostVars>>

\* the loop is exhausted: _finalise_run returns the result (lines 352-361)
FinishRun ==
    /\ pc = "loop"
    /\ idx > Len(plan.order)
    /\ pc' = "returned"
    /\ UNCHANGED <<workflow, plan, node_timeout, idx, steps, status, raw_results,
                   results, cur, worker, future, call, invoked, resolved, expired>>
    /\ UNCHANGED <<storeVars, hostVars>>

DriverNext ==
    \/ RunStart
    \/ ExamineNode
    \/ DeadlineExpires
    \/ JoinReturns
    \/ FutureResult
    \/ FinishRun

WorkerNext ==
    \/ WorkerReturns
    \/ WorkerRaises

Next == DriverNext \/ WorkerNext

Spec == ExecInit /\ [][Next]_vars

\* the driver and a capability that is not hung always get to run
FairSpec ==
    /\ Spec
    /\ WF_vars(DriverNext)
    /\ WF_vars(WorkerNext)

\* _build_result: the WorkflowExecutionResult handed back by run()
RunResult ==
    [status |-> IF status = "success" THEN "success" ELSE "failure",
     steps |-> steps,
     results |-> results]

(***************************************************************************)
(* run() with _build_execution_plan replaced, as                           *)
(* test_executor_reports_missing_upstream_results replaces it: the plan    *)
(* is handed in, and its incoming map may name nodes that have no result.  *)
(***************************************************************************)
\* "missing-upstream": an id no node of the graph carries
UndeclaredNode(wf) == Len(wf.nodes) + 1

\* fake_execution_plan: the nodes in declaration order, each with at most
\* one upstream drawn from the graph's nodes and the undeclared id
FakeExecutionPlans(wf) ==
    {[ok |-> TRUE, order |-> wf.nodes, incoming |-> incoming] :
        incoming \in [NodeSet(wf) -> SeqsUpTo(NodeSet(wf) \cup {UndeclaredNode(wf)}, 1)]}

PatchedInit ==
    /\ workflow \in {[nodes |-> NodeList(n), edges |-> <<>>] : n \in 1..MaxRunNodes}
    /\ plan = NoPlan
    /\ node_timeout = DefaultNodeTimeout
    /\ ExecIdle
    /\ StoreIdle
    /\ HostIdle

\* run(), lines 76-122, with the patched compiler
RunStartPatched ==
    /\ pc = "idle"
    /\ plan' \in FakeExecutionPlans(workflow)
    /\ pc' = "loop"
    /\ idx' = 1
    /\ UNCHANGED <<workflow, node_timeout, steps, status, raw_results, results, cur,
                   worker, future, call, invoked, resolved, expired>>
    /\ UNCHANGED <<storeVars, hostVars>>

PatchedNext ==
    \/ RunStartPatched
    \/ ExamineNode
    \/ DeadlineExpires
    \/ JoinReturns
    \/ FutureResult
    \/ FinishRun
    \/ WorkerNext

PatchedSpec == PatchedInit /\ [][PatchedNext]_vars

(***************************************************************************)
(* The capability resolver applied to every bounded reference.             *)
(***************************************************************************)
MaxPathLen == 4

\* what a caller can hand to resolve_component: any string, None, a number
ResolveInputs ==
    {PyStr(chars) : chars \in SeqsUpTo(Characters, MaxPathLen)}
        \cup {PyNone, PyInt(0), PyInt(7)}

LoaderInit ==
    /\ workflow = [nodes |-> NodeList(1), edges |-> <<>>]
    /\ plan = NoPlan
    /\ node_timeout = DefaultNodeTimeout
    /\ ExecIdle
    /\ StoreIdle
    /\ options = PyNone
    /\ heap = <<>>
    /\ now = ClockStart
    /\ loader \in {[path |-> v, pending |-> TRUE] : v \in ResolveInputs}
    /\ remote = NoRequest
    /\ runtime = NoContext

\* resolve_component(path)
ResolveComponentCall ==
    /\ "pending" \in DOMAIN loader
    /\ loader' = [path |-> loader.path, outcome |-> ResolveComponent(loader.path)]
    /\ UNCHANGED <<options, heap, now, remote, runtime>>
    /\ UNCHANGED <<planVars, execVars, storeVars>>

LoaderNext == ResolveComponentCall

LoaderSpec == LoaderInit /\ [][LoaderNext]_vars

(***************************************************************************)
(* The binder applied to every bounded signature, parameters and inputs.   *)
(***************************************************************************)
MaxSlots == 2

\* parameter names: the conventional slots and one more
SlotNames == {"context", "payload", "inputs", "upstream", "parameters", "tools"}

\* the order Python imposes on the kinds of a signature's parameters
KindRank(kind) ==
    CASE kind = "POSITIONAL_ONLY" -> 1
      [] kind = "POSITIONAL_OR_KEYWORD" -> 2
      [] kind = "VAR_POSITIONAL" -> 3
      [] kind = "KEYWORD_ONLY" -> 4
      [] OTHER -> 5

\* what "def" accepts: distinct names, kinds in order, one *args, one **kwargs
ValidParameters(ps) ==
    /\ \A i, j \in DOMAIN ps : i < j =>
          /\ ps[i].name # ps[j].name
          /\ KindRank(ps[i].kind) <= KindRank(ps[j].kind)
          /\ ps[i].kind = ps[j].kind => ps[i].kind \notin {"VAR_POSITIONAL", "VAR_KEYWORD"}

\* sample_callable(context, parameters, inputs, custom="ok") of the tests
SampleCallable ==
    Signature(<<Parameter("context", "POSITIONAL_OR_KEYWORD"),
                Parameter("parameters", "POSITIONAL_OR_KEYWORD"),
                Parameter("inputs", "POSITIONAL_OR_KEYWORD"),
                Parameter("tools", "POSITIONAL_OR_KEYWORD")>>)

\* a callable declaring the five conventional slots
AllConventional ==
    Signature(<<Parameter("context", "POSITIONAL_OR_KEYWORD"),
                Parameter("payload", "POSITIONAL_OR_KEYWORD"),
                Parameter("inputs", "POSITIONAL_OR_KEYWORD"),
                Parameter("upstream", "KEYWORD_ONLY"),
                Parameter("parameters", "KEYWORD_ONLY")>>)

BinderSignatures ==
    {Signature(ps) : ps \in {q \in SeqsUpTo({Parameter(n, k) : n \in SlotNames,
                                                               k \in ParameterKinds},
                                            MaxSlots) : ValidParameters(q)}}
        \cup {SampleCallable, AllConventional, NoSignature}

\* dict(parameters) as _invoke_component passes it: string keys
BinderParameters ==
    {PyDict(<<>>),
     PyDict(<< <<Name("tools"), PyInt(1)>> >>),
     PyDict(<< <<Name("tools"), PyInt(1)>>, <<Name("1"), PyInt(2)>> >>),
     PyDict(<< <<Name("context"), PyInt(5)>>, <<Name("tools"), PyInt(1)>> >>),
     PyDict(<< <<Name("inputs"), PyInt(7)>> >>)}

\* dict(inputs): the upstream results by node id
BinderInputs ==
    {PyDict(<<>>), PyDict(<< <<Name("1"), PyInt(3)>> >>)}

BinderInit ==
    /\ workflow = [nodes |-> NodeList(1), edges |-> <<>>]
    /\ plan = NoPlan
    /\ node_timeout = DefaultNodeTimeout
    /\ ExecIdle
    /\ StoreIdle
    /\ options = PyNone
    /\ heap = <<>>
    /\ now = ClockStart
    /\ loader \in {[signature |-> sig, parameters |-> ps, inputs |-> ins, pending |-> TRUE] :
                      sig \in BinderSignatures, ps \in BinderParameters, ins \in BinderInputs}
    /\ remote = NoRequest
    /\ runtime = NoContext

\* build_component_call_kwargs(callable_obj, parameters, inputs)
BuildComponentCallKwargsCall ==
    /\ "pending" \in DOMAIN loader
    /\ loader' = [signature |-> loader.signature,
                  parameters |-> loader.parameters,
                  inputs |-> loader.inputs,
                  outcome |-> BuildComponentCallKwargs(loader.signature, loader.parameters,
                                                       loader.inputs)]
    /\ UNCHANGED <<options, heap, now, remote, runtime>>
    /\ UNCHANGED <<planVars, execVars, storeVars>>

BinderNext == BuildComponentCallKwargsCall

BinderSpec == BinderInit /\ [][BinderNext]_vars

(***************************************************************************)
(* The result normaliser applied to every bounded value.                   *)
(***************************************************************************)
MaxResultLen == 2

\* values without parts
Atoms ==
    {PyNone, PyInt(1), PyStr(<<"tools">>), PyBytes(<<"tools">>), PySet(<<PyInt(1)>>),
     PyDataclassType}

\* dict keys (1 and "1" coerce to the same string) and attribute names
DictKeys == {PyInt(1), Name("1"), Name("tools")}

AttributeNames == {<<"tools">>, <<"_", "tools">>}

DistinctKeys(items) == \A i, j \in DOMAIN items : items[i][1] = items[j][1] => i = j

\* the containers whose parts are taken from S
ContainersOf(S) ==
    {PyList(items) : items \in SeqsUpTo(S, MaxResultLen)}
        \cup {PyTuple(items) : items \in SeqsUpTo(S, MaxResultLen)}
        \cup {PyDict(items) : items \in {q \in SeqsUpTo(DictKeys \X S, MaxResultLen) :
                                            DistinctKeys(q)}}
        \cup {PyObject(attrs) :
                attrs \in {q \in SeqsUpTo({PyStr(n) : n \in AttributeNames} \X S, MaxResultLen) :
                              DistinctKeys(q)}}
        \cup {PyDataclass(<< <<Name("tools"), v>> >>) : v \in S}

\* atoms, containers of atoms (or of themselves), and one container around
\* each of those
NormaliseInputs ==
    LET flat == ContainersOf(Atoms \cup {PySelf})
    IN  Atoms \cup flat
            \cup {PyList(<<v>>) : v \in flat}
            \cup {PyDict(<< <<PyInt(1), v>> >>) : v \in flat}

NormaliserInit ==
    /\ workflow = [nodes |-> NodeList(1), edges |-> <<>>]
    /\ plan = NoPlan
    /\ node_timeout = DefaultNodeTimeout
    /\ ExecIdle
    /\ StoreIdle
    /\ options = PyNone
    /\ heap = <<>>
    /\ now = ClockStart
    /\ loader \in {[result |-> v, pending |-> TRUE] : v \in NormaliseInputs}
    /\ remote = NoRequest
    /\ runtime = NoContext

\* normalise_result(result), and normalise_result of what it returned
NormaliseResultCall ==
    /\ "pending" \in DOMAIN loader
    /\ LET first == NormaliseResult(loader.result)
       IN  loader' = [result |-> loader.result,
                      outcome |-> first,
                      again |-> IF first.ok THEN NormaliseResult(first.value) ELSE first]
    /\ UNCHANGED <<options, heap, now, remote, runtime>>
    /\ UNCHANGED <<planVars, execVars, storeVars>>

NormaliserNext == NormaliseResultCall

NormaliserSpec == NormaliserInit /\ [][NormaliserNext]_vars

(***************************************************************************)
(* Run store: WorkflowRunStore.                                            *)
(*                                                                         *)
(* start_run, get_logs and to_status read a record's fields one after the  *)
(* other without holding the lock, so each read is a step of its own; the  *)
(* writers (_append_log, _fail_run) hold the lock, but their writes are    *)
(* visible one by one to those unlocked readers.  Run ids are fresh        *)
(* (uuid4) and stand for the position of the record in runs.  A record is  *)
(* never removed, so the "record is None" returns are not reachable.       *)
(***************************************************************************)
MaxRuns == 2

\* ExecutionBackend = DatapizzaWorkflowExecutor | RemoteWorkflowExecutor
ExecutionBackends == {"local", "remote"}

\* the keyword parameters run() declares (executor.py lines 70-75, 515-520)
RunKeywords(executor) ==
    IF executor = "local" THEN {"options"} ELSE {"options"}

\* Python binds the arguments of a call before the body runs; a keyword the
\* signature does not declare is a TypeError
CallBinds(executor, keywords) == keywords \subseteq RunKeywords(executor)

TypeErrorMessage == "run() got an unexpected keyword argument 'observer'"

\* _StepState(node_id=node.id)
StepState == [status |-> "pending", details |-> None]

\* an object is reached through a reference: the caller's own object, or an
\* object the store allocated
CallerRef == [owner |-> "caller"]

StoreRef(k) == [owner |-> "store", at |-> k]

Deref(h, ref, callerObject) ==
    IF ref = PyNone THEN PyNone
    ELSE IF ref = CallerRef THEN callerObject
    ELSE h[ref.at]

\* variant of copy(deep=True) that hands back the object it was given
CopyShared(h, ref, callerObject) == [heap |-> h, ref |-> ref]

\* BaseModel.copy(deep=True): a new object with the content of the given one
DeepCopy(h, ref, callerObject) ==
    [heap |-> Append(h, Deref(h, ref, callerObject)), ref |-> StoreRef(Len(h) + 1)]

\* variant of the record that registers no step
RunRecordWithoutSteps(snapshot, options_snapshot, nodes, created) ==
    [workflow |-> snapshot,
     options |-> options_snapshot,
     status |-> "running",
     created_at |-> created,
     archived |-> FALSE,
     result |-> NoResult,
     error |-> None,
     steps |-> <<>>,
     logs |-> <<>>,
     next_sequence |-> 0]

\* _RunRecord as start_run builds it: the two snapshots, one pending step
\* per node of the snapshot, created_at read from the clock (updated_at is
\* not part of the model)
RunRecord(snapshot, options_snapshot, nodes, created) ==
    [workflow |-> snapshot,
     options |-> options_snapshot,
     status |-> "running",
     created_at |-> created,
     archived |-> FALSE,
     result |-> NoResult,
     error |-> None,
     steps |-> [n \in nodes |-> StepState],
     logs |-> <<>>,
     next_sequence |-> 0]

\* the content of a run's two snapshots
SnapshotOf(h, record) ==
    [workflow |-> Deref(h, record.workflow, workflow),
     options |-> Deref(h, record.options, options)]

\* the store never looks at the edges: the caller's graph has the largest
\* number of nodes and no edge
StoreInit ==
    /\ workflow = [nodes |-> NodeList(MaxRunNodes), edges |-> <<>>]
    /\ plan = NoPlan
    /\ node_timeout = DefaultNodeTimeout
    /\ ExecIdle
    /\ StoreIdle
    /\ HostIdle

\* start_run, lines 104-122, once uuid4 has given run_id: the deep copies,
\* the pending steps and self._runs[run_id] = record under the lock.
\* "origin" remembers the run a retry was asked for (0 for a start), "taken"
\* what the two snapshots held when they were made, "args" what
\* _execute_run hands to executor.run
StartRunAs(run_id, workflowRef, optionsRef, executor, origin) ==
    LET snapshot == DeepCopy(heap, workflowRef, workflow)
        options_snapshot ==
            IF optionsRef = PyNone THEN [heap |-> snapshot.heap, ref |-> PyNone]
            ELSE DeepCopy(snapshot.heap, optionsRef, options)
        content == Deref(snapshot.heap, snapshot.ref, workflow)
        record == RunRecord(snapshot.ref, options_snapshot.ref, NodeSet(content), now)
    IN  /\ ~lock
        /\ heap' = options_snapshot.heap
        /\ runs' = (run_id :> record) @@ runs
        /\ bg' = Append(bg, [pc |-> "unstarted", run_id |-> run_id,
                             executor |-> executor, exc |-> None,
                             origin |-> origin,
                             taken |-> SnapshotOf(options_snapshot.heap, record),
                             args |-> NoCall])
        /\ drawn' = Append(drawn, <<>>)
        /\ client' = [pc |-> "launch",
                      op |-> IF origin = 0 THEN "start_run" ELSE "retry_run",
                      asked |-> origin,
                      run |-> run_id,
                      response |-> [status |-> "unread", steps |-> <<>>,
                                    result |-> NoResponse, error |-> "unread"]]
        /\ UNCHANGED <<lock, poller>>
        /\ UNCHANGED <<options, now, loader, remote, runtime>>
        /\ UNCHANGED <<planVars, execVars>>

\* start_run when the eight hexadecimal digits uuid4 gives are those of no
\* earlier run: the runs are numbered in the order of their registration
StartRun(workflowRef, optionsRef, executor, origin) ==
    StartRunAs(Len(runs) + 1, workflowRef, optionsRef, executor, origin)

\* the executor main.py hands to the store is the one the settings select
\* (_resolve_executor): any backend for the first call, the same one after
ConfiguredBackends ==
    IF bg = <<>> THEN ExecutionBackends ELSE {bg[1].executor}

\* start_run called with the caller's graph and options
StartRunRegister ==
    /\ client.pc \in {"idle", "returned"}
    /\ Len(bg) < MaxRuns
    /\ \E executor \in ConfiguredBackends :
          StartRun(CallerRef, IF options = PyNone THEN PyNone ELSE CallerRef,
                   executor, 0)

\* start_run, lines 124-130: thread.start()
StartRunLaunch ==
    /\ client.pc = "launch"
    /\ bg' = [bg EXCEPT ![Len(bg)].pc = "start_log"]
    /\ client' = [client EXCEPT !.pc = "read_status"]
    /\ UNCHANGED <<runs, lock, poller, drawn>>
    /\ UNCHANGED <<planVars, execVars, hostVars>>

\* record.to_status() at the end of start_run: self.status
ToStatusReadStatus ==
    /\ client.pc = "read_status"
    /\ client' = [client EXCEPT !.pc = "read_steps",
                                !.response.status = runs[client.run].status]
    /\ UNCHANGED <<runs, lock, bg, poller, drawn>>
    /\ UNCHANGED <<planVars, execVars, hostVars>>

\* to_status(): self.steps
ToStatusReadSteps ==
    /\ client.pc = "read_steps"
    /\ client' = [client EXCEPT !.pc = "read_result",
                                !.response.steps = runs[client.run].steps]
    /\ UNCHANGED <<runs, lock, bg, poller, drawn>>
    /\ UNCHANGED <<planVars, execVars, hostVars>>

\* to_status(): self.result
ToStatusReadResult ==
    /\ client.pc = "read_result"
    /\ client' = [client EXCEPT !.pc = "read_error",
                                !.response.result = runs[client.run].result]
    /\ UNCHANGED <<runs, lock, bg, poller, drawn>>
    /\ UNCHANGED <<planVars, execVars, hostVars>>

\* to_status(): self.error; start_run returns the response
ToStatusReadError ==
    /\ client.pc = "read_error"
    /\ client' = [client EXCEPT !.pc = "returned",
                                !.response.error = runs[client.run].error]
    /\ UNCHANGED <<runs, lock, bg, poller, drawn>>
    /\ UNCHANGED <<planVars, execVars, hostVars>>

\* the two _append_log calls the background thread makes: at the start of
\* _execute_run and at the end of _fail_run
LogMessage(r) ==
    IF bg[r].pc \in {"start_log", "start_log_append"}
    THEN [message |-> "Avvio esecuzione workflow", level |-> "info"]
    ELSE [message |-> bg[r].exc, level |-> "error"]

\* variant of _append_log that numbers an entry by the entries already stored
\* at the time the thread started, so the failure entry reuses number 1
AppendLogBeginReusing(r) ==
    /\ bg[r].pc \in {"start_log", "fail_log"}
    /\ ~lock
    /\ lock' = TRUE
    /\ runs' = [runs EXCEPT ![bg[r].run_id].next_sequence = 1]
    /\ drawn' = [drawn EXCEPT ![r] = Append(@, 1)]
    /\ bg' = [bg EXCEPT ![r].pc = IF @ = "start_log" THEN "start_log_append"
                                  ELSE "fail_log_append"]
    /\ UNCHANGED <<client, poller>>
    /\ UNCHANGED <<planVars, execVars, hostVars>>

\* _append_log, lines 267-271: take the lock, record.next_sequence += 1
AppendLogBegin(r) ==
    /\ bg[r].pc \in {"start_log", "fail_log"}
    /\ ~lock
    /\ lock' = TRUE
    /\ runs' = [runs EXCEPT ![bg[r].run_id].next_sequence = @ + 1]
    /\ drawn' = [drawn EXCEPT ![r] = Append(@, runs[bg[r].run_id].next_sequence + 1)]
    /\ bg' = [bg EXCEPT ![r].pc = IF @ = "start_log" THEN "start_log_append"
                                  ELSE "fail_log_append"]
    /\ UNCHANGED <<client, poller>>
    /\ UNCHANGED <<planVars, execVars, hostVars>>

\* _append_log, lines 272-281: build the entry, append it, release the lock
AppendLogEnd(r) ==
    /\ bg[r].pc \in {"start_log_append", "fail_log_append"}
    /\ runs' = [runs EXCEPT ![bg[r].run_id].logs =
                    Append(@, [sequence |-> runs[bg[r].run_id].next_sequence,
                               message |-> LogMessage(r).message,
                               level |-> LogMessage(r).level])]
    /\ lock' = FALSE
    /\ bg' = [bg EXCEPT ![r].pc = IF @ = "start_log_append" THEN "call" ELSE "done"]
    /\ UNCHANGED <<client, poller, drawn>>
    /\ UNCHANGED <<planVars, execVars, hostVars>>

\* _execute_run, lines 218-228: _get_run, then executor.run(workflow,
\* options=..., observer=emit).  Neither backend declares "observer", so the
\* call raises TypeError before the body of run() starts; except Exception
\* hands str(exc) to _fail_run.
ExecuteRunCall(r) ==
    /\ bg[r].pc = "call"
    /\ ~lock
    /\ ~CallBinds(bg[r].executor, {"options", "observer"})
    /\ bg' = [bg EXCEPT ![r].pc = "fail", ![r].exc = TypeErrorMessage,
                         ![r].args = SnapshotOf(heap, runs[bg[r].run_id])]
    /\ UNCHANGED <<runs, lock, client, poller, drawn>>
    /\ UNCHANGED <<planVars, execVars, hostVars>>

\* _fail_run, lines 310-314: take the lock, record.status = "failure"
FailRunSetStatus(r) ==
    /\ bg[r].pc = "fail"
    /\ ~lock
    /\ lock' = TRUE
    /\ runs' = [runs EXCEPT ![bg[r].run_id].status = "failure"]
    /\ bg' = [bg EXCEPT ![r].pc = "fail_error"]
    /\ UNCHANGED <<client, poller, drawn>>
    /\ UNCHANGED <<planVars, execVars, hostVars>>

\* _fail_run, lines 315-316: record.error = error_message, release the lock
FailRunSetError(r) ==
    /\ bg[r].pc = "fail_error"
    /\ runs' = [runs EXCEPT ![bg[r].run_id].error = bg[r].exc]
    /\ lock' = FALSE
    /\ bg' = [bg EXCEPT ![r].pc = "fail_log"]
    /\ UNCHANGED <<client, poller, drawn>>
    /\ UNCHANGED <<planVars, execVars, hostVars>>

\* start = after if after is not None else -1; after is <<>> or <<cursor>>
CursorStart(after) == IF after = <<>> THEN -1 ELSE after[1]

\* variant of the filter of get_logs that keeps the entry at the cursor
LogsAfterInclusive(record, after) ==
    SelectSeq(record.logs, LAMBDA log : log.sequence >= CursorStart(after))

\* get_logs, lines 171-176: the entries whose sequence is above the cursor
LogsAfter(record, after) ==
    SelectSeq(record.logs, LAMBDA log : log.sequence > CursorStart(after))

\* get_logs on a record as it stands
GetLogs(record, after) ==
    [logs |-> LogsAfter(record, after), nextCursor |-> record.next_sequence]

\* get_logs, line 170: _get_run under the lock; the poller follows one run
GetLogsGetRun ==
    /\ poller.pc = "idle"
    /\ ~lock
    /\ \E r \in DOMAIN runs :
          /\ poller.run \in {0, r}
          /\ poller' = [poller EXCEPT !.pc = "read_logs", !.run = r]
    /\ UNCHANGED <<runs, lock, bg, client, drawn>>
    /\ UNCHANGED <<planVars, execVars, hostVars>>

\* get_logs, lines 172-176: the list comprehension over record.logs
GetLogsReadLogs ==
    /\ poller.pc = "read_logs"
    /\ poller' = [poller EXCEPT !.pc = "read_cursor",
                                !.logs = LogsAfter(runs[poller.run], poller.after)]
    /\ UNCHANGED <<runs, lock, bg, client, drawn>>
    /\ UNCHANGED <<planVars, execVars, hostVars>>

\* get_logs, lines 177-181: nextCursor=record.next_sequence; the poller keeps
\* the entries and passes nextCursor as the next "after"
GetLogsReadCursor ==
    /\ poller.pc = "read_cursor"
    /\ poller' = [poller EXCEPT !.pc = "idle",
                                !.received = @ \o poller.logs,
                                !.logs = <<>>,
                                !.after = <<runs[poller.run].next_sequence>>]
    /\ UNCHANGED <<runs, lock, bg, client, drawn>>
    /\ UNCHANGED <<planVars, execVars, hostVars>>

BackgroundStep(r) ==
    \/ AppendLogBegin(r)
    \/ AppendLogEnd(r)
    \/ ExecuteRunCall(r)
    \/ FailRunSetStatus(r)
    \/ FailRunSetError(r)

BackgroundNext == \E r \in DOMAIN bg : BackgroundStep(r)

ClientNext ==
    \/ StartRunRegister
    \/ StartRunLaunch
    \/ ToStatusReadStatus
    \/ ToStatusReadSteps
    \/ ToStatusReadResult
    \/ ToStatusReadError

PollerNext ==
    \/ GetLogsGetRun
    \/ GetLogsReadLogs
    \/ GetLogsReadCursor

StoreNext == ClientNext \/ BackgroundNext \/ PollerNext

StoreSpec == StoreInit /\ [][StoreNext]_vars

(***************************************************************************)
(* The operations of the run store, called one after the other by a       *)
(* client thread while the background threads of the runs proceed, the     *)
(* caller edits its own graph and options, and the clock advances.         *)
(* archive_run and list_runs work under the lock and are one step each;    *)
(* retry_run, get_status and get_logs look the run up under the lock and   *)
(* go on without it.                                                       *)
(***************************************************************************)
\* the run ids a client may ask for: those of the runs and one more
RunIds == 1..(MaxRuns + 1)

\* variant of _get_run that answers with the oldest run when the id is unknown
GetRunOrOldest(id) ==
    IF id \in DOMAIN runs THEN [ok |-> TRUE, record |-> id]
    ELSE IF runs # <<>> THEN [ok |-> TRUE, record |-> 1]
    ELSE [ok |-> FALSE, raised |-> "KeyError", key |-> id]

\* _get_run: the record, or KeyError(run_id)
GetRun(id) ==
    IF id \in DOMAIN runs THEN [ok |-> TRUE, record |-> id]
    ELSE [ok |-> FALSE, raised |-> "KeyError", key |-> id]

\* what the caller of an operation gets when it raises KeyError
KeyErrorResponse(id) == [raised |-> "KeyError", key |-> id]

\* the options object a caller hands to start_run
StagingOptions == [type |-> "WorkflowRuntimeOptions", environment |-> "staging"]

\* the character codes of "." and "Z"
CodeOfDot == 46

CodeOfZ == 90

\* created_at.isoformat() + "Z" as string comparison sees it: the date and
\* time down to the second (fixed width, so ordered as the number of
\* seconds), then "Z", or "." with the six digits of the microseconds and
\* "Z" when the microseconds are not zero
IsoFormatZ(t) ==
    LET second == t \div MicrosecondsPerSecond
        microsecond == t % MicrosecondsPerSecond
    IN  IF microsecond = 0 THEN <<second, CodeOfZ>>
        ELSE <<second, CodeOfDot, microsecond, CodeOfZ>>

\* a < b on strings
RECURSIVE StrLess(_, _)
StrLess(a, b) ==
    IF b = <<>> THEN FALSE
    ELSE IF a = <<>> THEN TRUE
    ELSE IF Head(a) # Head(b) THEN Head(a) < Head(b)
    ELSE StrLess(Tail(a), Tail(b))

\* _RunRecord.to_summary
ToSummary(id) ==
    [runId |-> id,
     status |-> runs[id].status,
     createdAt |-> IsoFormatZ(runs[id].created_at),
     archived |-> runs[id].archived]

\* runs.sort(key=lambda summary: summary.createdAt, reverse=True): a stable
\* sort, so a summary goes behind those whose key is not below its own
InsertByCreatedAt(sorted, summary) ==
    LET ahead == {i \in DOMAIN sorted : ~StrLess(sorted[i].createdAt, summary.createdAt)}
        k == Cardinality(ahead)
    IN  SubSeq(sorted, 1, k) \o <<summary>> \o SubSeq(sorted, k + 1, Len(sorted))

RECURSIVE SortByCreatedAtReversed(_)
SortByCreatedAtReversed(summaries) ==
    IF summaries = <<>> THEN <<>>
    ELSE InsertByCreatedAt(
             SortByCreatedAtReversed(SubSeq(summaries, 1, Len(summaries) - 1)),
             summaries[Len(summaries)])

\* list_runs
ListOfRuns(include_archived) ==
    LET kept == SelectSeq([id \in DOMAIN runs |-> id],
                          LAMBDA id : include_archived \/ ~runs[id].archived)
    IN  SortByCreatedAtReversed([i \in DOMAIN kept |-> ToSummary(kept[i])])

\* variant of archive_run that empties the log of the run
ArchivedWithoutLogs(record) == [record EXCEPT !.archived = TRUE, !.logs = <<>>]

\* variant of archive_run that puts the run back to running
ArchivedAndReopened(record) == [record EXCEPT !.archived = TRUE, !.status = "running"]

\* archive_run, line 148: record.archived = True
Archived(record) == [record EXCEPT !.archived = TRUE]

\* retry_run, line 140: _get_run(run_id)
RetryRunGetRun ==
    /\ client.pc \in {"idle", "returned"}
    /\ Len(bg) < MaxRuns
    /\ ~lock
    /\ \E id \in RunIds :
          LET got == GetRun(id)
          IN  client' = IF got.ok
                        THEN [pc |-> "retry", op |-> "retry_run", asked |-> id,
                              run |-> got.record, response |-> NoResponse]
                        ELSE [pc |-> "returned", op |-> "retry_run", asked |-> id,
                              run |-> 0, response |-> KeyErrorResponse(id)]
    /\ UNCHANGED <<runs, lock, bg, poller, drawn>>
    /\ UNCHANGED <<planVars, execVars, hostVars>>

\* retry_run, line 141: start_run(record.workflow, record.options, executor)
RetryRunRegister ==
    /\ client.pc = "retry"
    /\ Len(bg) < MaxRuns
    /\ \E executor \in ConfiguredBackends :
          StartRun(runs[client.run].workflow, runs[client.run].options,
                   executor, client.run)

\* archive_run: under the lock, the lookup, the flag and the summary
ArchiveRun ==
    /\ client.pc \in {"idle", "returned"}
    /\ ~lock
    /\ \E id \in RunIds :
          IF id \in DOMAIN runs
          THEN /\ runs' = [runs EXCEPT ![id] = Archived(@)]
               /\ client' = [pc |-> "returned", op |-> "archive_run", asked |-> id,
                             run |-> id,
                             response |-> [summary |-> [runId |-> id,
                                                        status |-> runs[id].status,
                                                        archived |-> Archived(runs[id]).archived]]]
          ELSE /\ client' = [pc |-> "returned", op |-> "archive_run", asked |-> id,
                             run |-> 0, response |-> KeyErrorResponse(id)]
               /\ UNCHANGED runs
    /\ UNCHANGED <<lock, bg, poller, drawn>>
    /\ UNCHANGED <<planVars, execVars, hostVars>>

\* get_status, line 154: _get_run(run_id); to_status follows without the lock
GetStatusGetRun ==
    /\ client.pc \in {"idle", "returned"}
    /\ ~lock
    /\ \E id \in RunIds :
          LET got == GetRun(id)
          IN  client' = IF got.ok
                        THEN [pc |-> "read_status", op |-> "get_status", asked |-> id,
                              run |-> got.record,
                              response |-> [status |-> "unread", steps |-> <<>>,
                                            result |-> NoResponse, error |-> "unread"]]
                        ELSE [pc |-> "returned", op |-> "get_status", asked |-> id,
                              run |-> 0, response |-> KeyErrorResponse(id)]
    /\ UNCHANGED <<runs, lock, bg, poller, drawn>>
    /\ UNCHANGED <<planVars, execVars, hostVars>>

\* get_logs, line 170: _get_run(run_id); the client asks without a cursor
GetLogsCall ==
    /\ client.pc \in {"idle", "returned"}
    /\ ~lock
    /\ \E id \in RunIds :
          LET got == GetRun(id)
          IN  client' = IF got.ok
                        THEN [pc |-> "read_logs", op |-> "get_logs", asked |-> id,
                              run |-> got.record,
                              response |-> [logs |-> <<>>, nextCursor |-> <<>>]]
                        ELSE [pc |-> "returned", op |-> "get_logs", asked |-> id,
                              run |-> 0, response |-> KeyErrorResponse(id)]
    /\ UNCHANGED <<runs, lock, bg, poller, drawn>>
    /\ UNCHANGED <<planVars, execVars, hostVars>>

\* get_logs, lines 171-181, for the client: the entries, then nextCursor
GetLogsReturn ==
    /\ client.pc = "read_logs"
    /\ client' = [client EXCEPT !.pc = "returned",
                                !.response = [logs |-> LogsAfter(runs[client.run], <<>>),
                                              nextCursor |-> <<runs[client.run].next_sequence>>]]
    /\ UNCHANGED <<runs, lock, bg, poller, drawn>>
    /\ UNCHANGED <<planVars, execVars, hostVars>>

\* list_runs: the summaries under the lock, then the sort
ListRuns ==
    /\ client.pc \in {"idle", "returned"}
    /\ ~lock
    /\ \E include_archived \in BOOLEAN :
          client' = [pc |-> "returned", op |-> "list_runs", asked |-> 0, run |-> 0,
                     response |-> [include_archived |-> include_archived,
                                   runs |-> ListOfRuns(include_archived)]]
    /\ UNCHANGED <<runs, lock, bg, poller, drawn>>
    /\ UNCHANGED <<planVars, execVars, hostVars>>

\* the caller removes the last node of its own graph
CallerEditsGraph ==
    /\ client.pc \in {"idle", "returned"}
    /\ Len(workflow.nodes) > 1
    /\ workflow' = [workflow EXCEPT !.nodes = SubSeq(@, 1, Len(@) - 1)]
    /\ UNCHANGED <<plan, execVars, storeVars, hostVars>>

\* the caller sets the environment field of its own options object
CallerEditsOptions ==
    /\ client.pc \in {"idle", "returned"}
    /\ options # PyNone
    /\ options.environment = "staging"
    /\ options' = [options EXCEPT !.environment = "production"]
    /\ UNCHANGED <<planVars, execVars, storeVars>>
    /\ UNCHANGED <<heap, now, loader, remote, runtime>>

\* time passes; only start_run reads the clock, between the client's calls
Tick ==
    /\ client.pc \in {"idle", "returned"}
    /\ \E t \in ClockReadings :
          /\ t > now
          /\ now' = t
    /\ UNCHANGED <<planVars, execVars, storeVars>>
    /\ UNCHANGED <<options, heap, loader, remote, runtime>>

RetryNext ==
    \/ RetryRunGetRun
    \/ RetryRunRegister

QueryNext ==
    \/ GetStatusGetRun
    \/ GetLogsCall
    \/ GetLogsReturn

CallerNext ==
    \/ CallerEditsGraph
    \/ CallerEditsOptions

\* start, retry, archive, status and logs against the background threads
ManagerNext ==
    \/ ClientNext
    \/ RetryNext
    \/ ArchiveRun
    \/ QueryNext
    \/ BackgroundNext

ManagerSpec == StoreInit /\ [][ManagerNext]_vars

\* start, archive, status and logs against the background threads
ArchiveNext ==
    \/ ClientNext
    \/ ArchiveRun
    \/ QueryNext
    \/ BackgroundNext

ArchiveSpec == StoreInit /\ [][ArchiveNext]_vars

\* a call in progress goes on and every background thread gets to run
FairArchiveSpec ==
    /\ ArchiveSpec
    /\ WF_vars(StartRunLaunch)
    /\ \A r \in 1..MaxRuns : WF_vars(r \in DOMAIN bg /\ BackgroundStep(r))

(***************************************************************************)
(* The registry with run ids as start_run makes them: "run_" and the first *)
(* eight hexadecimal digits of a uuid4, one of 16^8 values, which nothing  *)
(* compares with the ids already registered.  RunIds stands for the values *)
(* a draw can give.                                                        *)
(***************************************************************************)
\* start_run, lines 99-122, with the caller's graph and options
StartRunDrawn ==
    /\ client.pc \in {"idle", "returned"}
    /\ Len(bg) < MaxRuns
    /\ \E run_id \in RunIds, executor \in ConfiguredBackends :
          StartRunAs(run_id, CallerRef,
                     IF options = PyNone THEN PyNone ELSE CallerRef, executor, 0)

\* retry_run, line 141: start_run(record.workflow, record.options, executor)
RetryRunDrawn ==
    /\ client.pc = "retry"
    /\ Len(bg) < MaxRuns
    /\ \E run_id \in RunIds, executor \in ConfiguredBackends :
          StartRunAs(run_id, runs[client.run].workflow, runs[client.run].options,
                     executor, client.run)

\* start, retry and status against the background threads
RegistryNext ==
    \/ StartRunDrawn
    \/ StartRunLaunch
    \/ ToStatusReadStatus
    \/ ToStatusReadSteps
    \/ ToStatusReadResult
    \/ ToStatusReadError
    \/ RetryRunGetRun
    \/ RetryRunDrawn
    \/ GetStatusGetRun
    \/ BackgroundNext

RegistrySpec == StoreInit /\ [][RegistryNext]_vars

\* start and retry while the caller goes on editing what it handed over
SnapshotInit ==
    /\ workflow = [nodes |-> NodeList(MaxRunNodes), edges |-> <<>>]
    /\ plan = NoPlan
    /\ node_timeout = DefaultNodeTimeout
    /\ ExecIdle
    /\ StoreIdle
    /\ options \in {PyNone, StagingOptions}
    /\ heap = <<>>
    /\ now = ClockStart
    /\ loader = NoLoad
    /\ remote = NoRequest
    /\ runtime = NoContext

SnapshotNext ==
    \/ ClientNext
    \/ RetryNext
    \/ BackgroundNext
    \/ CallerNext

SnapshotSpec == SnapshotInit /\ [][SnapshotNext]_vars

\* start, archive and list while time passes
ListingNext ==
    \/ ClientNext
    \/ ArchiveRun
    \/ ListRuns
    \/ BackgroundNext
    \/ Tick

ListingSpec == StoreInit /\ [][ListingNext]_vars

(***************************************************************************)
(* Remote executor: RemoteWorkflowExecutor.run, one httpx.post to the      *)
(* configured endpoint.                                                    *)
(***************************************************************************)
\* RemoteWorkflowExecutor.__init__: timeout = 60.0 seconds
DefaultRemoteTimeout == 6000

\* configured timeouts in hundredths of a second: 2.5s and the default
RemoteTimeouts == {250, DefaultRemoteTimeout}

\* the httpx exception classes the request can end with, each with the
\* classes it derives from
HttpxException(class, bases) == [class |-> class, bases |-> bases]

ConnectTimeout ==
    HttpxException("ConnectTimeout", {"TimeoutException", "TransportError", "RequestError",
                                      "HTTPError", "Exception"})
ReadTimeout ==
    HttpxException("ReadTimeout", {"TimeoutException", "TransportError", "RequestError",
                                   "HTTPError", "Exception"})
ConnectError ==
    HttpxException("ConnectError", {"NetworkError", "TransportError", "RequestError",
                                    "HTTPError", "Exception"})
RemoteProtocolError ==
    HttpxException("RemoteProtocolError", {"ProtocolError", "TransportError", "RequestError",
                                           "HTTPError", "Exception"})
HTTPStatusError(status_code) ==
    [class |-> "HTTPStatusError", bases |-> {"HTTPError", "Exception"},
     status_code |-> status_code]

\* what a request sent to the endpoint can raise
PostExceptions == {ConnectTimeout, ReadTimeout, ConnectError, RemoteProtocolError}

\* isinstance(exc, cls), as an except clause tests it
IsInstance(exc, class) == exc.class = class \/ class \in exc.bases

\* the values of a JSON document: dict(key, value) items keyed by strings
Item(dict, word) ==
    dict.items[CHOOSE i \in DOMAIN dict.items : dict.items[i][1] = Name(word)][2]

StepDocument(step_status, details) ==
    PyDict(<< <<Name("nodeId"), Name("task-1")>>, <<Name("status"), Name(step_status)>> >>
           \o details)

CompletedStep == StepDocument("completed", << <<Name("details"), Name("ok")>> >>)
FailedStep == StepDocument("failed", << <<Name("details"), Name("boom")>> >>)
BareStep == StepDocument("completed", <<>>)

OutputsDocument == PyDict(<< <<Name("results"), PyDict(<<>>)>> >>)

ResultDocument(run_status, step_documents, outputs) ==
    PyDict(<< <<Name("runId"), Name("remote-123")>>,
              <<Name("status"), Name(run_status)>>,
              <<Name("steps"), PyList(step_documents)>> >> \o outputs)

\* what a peer can answer with: results that succeeded or failed, with and
\* without the optional fields, and JSON that is not a result
ResultDocuments ==
    {ResultDocument("success", <<CompletedStep>>, << <<Name("outputs"), OutputsDocument>> >>),
     ResultDocument("failure", <<CompletedStep, FailedStep>>,
                    << <<Name("outputs"), OutputsDocument>> >>),
     ResultDocument("failure", <<>>, <<>>),
     ResultDocument("success", <<BareStep>>, <<>>)}

OtherDocuments ==
    {PyDict(<<>>), PyList(<<>>), PyNone, ResultDocument("running", <<BareStep>>, <<>>)}

\* response bodies: a JSON document, an HTML error page, nothing
JsonBody(document) == [content |-> "json", document |-> document]
HtmlBody == [content |-> "html"]
EmptyBody == [content |-> "empty"]

Bodies == {JsonBody(d) : d \in ResultDocuments \cup OtherDocuments} \cup {HtmlBody, EmptyBody}

StatusCodes == {200, 204, 302, 404, 502}

Response(status_code, body) == [status_code |-> status_code, body |-> body]

\* httpx.Response.is_success
IsSuccess(response) == response.status_code \div 100 = 2

\* response.json(): the document, or ValueError (json.JSONDecodeError)
ResponseJson(response) ==
    IF response.body.content = "json"
    THEN [ok |-> TRUE, value |-> response.body.document]
    ELSE [ok |-> FALSE, raised |-> "JSONDecodeError"]

RemoteExecutionError(message) == [class |-> "RemoteExecutionError", message |-> message]

RemoteTimeoutMessage(t) ==
    [text |-> "Remote workflow execution timed out after", tenths |-> FormatOneDecimal(t)]
RemoteStatusMessage(status_code) ==
    [text |-> "Remote execution failed with status code", status_code |-> status_code]
RemoteTransportMessage == [text |-> "Remote execution failed due to a transport error"]
RemoteInvalidPayloadMessage == [text |-> "Remote execution returned an invalid JSON payload"]

\* models.py, WorkflowExecutionStep: nodeId: str, status: Literal[...],
\* details: Optional[str] = None
StepStatuses == {Name("pending"), Name("running"), Name("completed"), Name("failed")}

ValidatesAsStep(v) ==
    /\ v.type = "dict"
    /\ HasKey(v.items, Name("nodeId")) /\ Item(v, "nodeId").type = "str"
    /\ HasKey(v.items, Name("status")) /\ Item(v, "status") \in StepStatuses
    /\ HasKey(v.items, Name("details")) => Item(v, "details").type \in {"str", "NoneType"}

ParseStep(v) ==
    [nodeId |-> Item(v, "nodeId"),
     status |-> Item(v, "status"),
     details |-> IF HasKey(v.items, Name("details")) THEN Item(v, "details") ELSE PyNone]

\* models.py, WorkflowExecutionResult: runId: str, status: Literal["success",
\* "failure"], steps: List[WorkflowExecutionStep], outputs: Dict[str, Any] = {}
ValidatesAsResult(v) ==
    /\ v.type = "dict"
    /\ HasKey(v.items, Name("runId")) /\ Item(v, "runId").type = "str"
    /\ HasKey(v.items, Name("status"))
    /\ Item(v, "status") \in {Name("success"), Name("failure")}
    /\ HasKey(v.items, Name("steps")) /\ Item(v, "steps").type = "list"
    /\ \A i \in DOMAIN Item(v, "steps").items : ValidatesAsStep(Item(v, "steps").items[i])
    /\ HasKey(v.items, Name("outputs")) => Item(v, "outputs").type = "dict"

\* WorkflowExecutionResult.parse_obj(result_payload): the validated model,
\* or pydantic's ValidationError
ParseObj(v) ==
    IF ValidatesAsResult(v)
    THEN [ok |-> TRUE,
          result |-> [runId |-> Item(v, "runId"),
                      status |-> Item(v, "status"),
                      steps |-> [i \in DOMAIN Item(v, "steps").items |->
                                    ParseStep(Item(v, "steps").items[i])],
                      outputs |-> IF HasKey(v.items, Name("outputs"))
                                  THEN Item(v, "outputs") ELSE PyDict(<<>>)]]
    ELSE [ok |-> FALSE, raised |-> "ValidationError"]

\* run(), lines 522-525: payload = {"workflow": workflow.dict(by_alias=True)},
\* plus "options" when options were given
RequestPayload ==
    IF options = PyNone THEN [workflow |-> workflow]
    ELSE [workflow |-> workflow, options |-> [environment |-> options.environment]]

RemoteRun ==
    /\ remote.pc = "start"
    /\ remote' = [remote EXCEPT !.pc = "post", !.payload = RequestPayload]
    /\ UNCHANGED <<options, heap, now, loader, runtime>>
    /\ UNCHANGED <<planVars, execVars, storeVars>>

\* lines 534-539: httpx.post(execution_url, json=payload, headers=...,
\* timeout=self.timeout); the peer answers, or the request raises
HttpxPost ==
    /\ remote.pc = "post"
    /\ \/ \E exc \in PostExceptions :
            remote' = [remote EXCEPT !.pc = "except", !.exc = exc,
                                     !.requests = Append(@, remote.payload)]
       \/ \E status_code \in StatusCodes, body \in Bodies :
            remote' = [remote EXCEPT !.pc = "raise_for_status",
                                     !.response = Response(status_code, body),
                                     !.requests = Append(@, remote.payload)]
    /\ UNCHANGED <<options, heap, now, loader, runtime>>
    /\ UNCHANGED <<planVars, execVars, storeVars>>

\* line 540: response.raise_for_status()
RaiseForStatus ==
    /\ remote.pc = "raise_for_status"
    /\ remote' = IF IsSuccess(remote.response)
                 THEN [remote EXCEPT !.pc = "json"]
                 ELSE [remote EXCEPT !.pc = "except",
                                     !.exc = HTTPStatusError(remote.response.status_code)]
    /\ UNCHANGED <<options, heap, now, loader, runtime>>
    /\ UNCHANGED <<planVars, execVars, storeVars>>

\* variant of the except clauses that posts once more after a transport error
RemoteExceptRetrying ==
    /\ remote.pc = "except"
    /\ remote' =
         CASE IsInstance(remote.exc, "TimeoutException") ->
                [remote EXCEPT !.pc = "raised",
                    !.raised = RemoteExecutionError(RemoteTimeoutMessage(remote.timeout))]
           [] IsInstance(remote.exc, "HTTPStatusError") ->
                [remote EXCEPT !.pc = "raised",
                    !.raised = RemoteExecutionError(RemoteStatusMessage(remote.exc.status_code))]
           [] IsInstance(remote.exc, "HTTPError") /\ Len(remote.requests) < 2 ->
                [remote EXCEPT !.pc = "post"]
           [] IsInstance(remote.exc, "HTTPError") ->
                [remote EXCEPT !.pc = "raised",
                    !.raised = RemoteExecutionError(RemoteTransportMessage)]
           [] OTHER -> [remote EXCEPT !.pc = "raised", !.raised = remote.exc]
    /\ UNCHANGED <<options, heap, now, loader, runtime>>
    /\ UNCHANGED <<planVars, execVars, storeVars>>

\* lines 541-590: the except clauses in their order; an exception none of
\* them names leaves run() as it is
RemoteExcept ==
    /\ remote.pc = "except"
    /\ remote' =
         CASE IsInstance(remote.exc, "TimeoutException") ->
                [remote EXCEPT !.pc = "raised",
                    !.raised = RemoteExecutionError(RemoteTimeoutMessage(remote.timeout))]
           [] IsInstance(remote.exc, "HTTPStatusError") ->
                [remote EXCEPT !.pc = "raised",
                    !.raised = RemoteExecutionError(RemoteStatusMessage(remote.exc.status_code))]
           [] IsInstance(remote.exc, "HTTPError") ->
                [remote EXCEPT !.pc = "raised",
                    !.raised = RemoteExecutionError(RemoteTransportMessage)]
           [] OTHER -> [remote EXCEPT !.pc = "raised", !.raised = remote.exc]
    /\ UNCHANGED <<options, heap, now, loader, runtime>>
    /\ UNCHANGED <<planVars, execVars, storeVars>>

\* lines 592-608: result_payload = response.json(), ValueError mapped to
\* RemoteExecutionError
RemoteReadJson ==
    /\ remote.pc = "json"
    /\ LET decoded == ResponseJson(remote.response)
       IN  remote' = IF decoded.ok
                     THEN [remote EXCEPT !.pc = "parse", !.result_payload = decoded.value]
                     ELSE [remote EXCEPT !.pc = "raised",
                              !.raised = RemoteExecutionError(RemoteInvalidPayloadMessage)]
    /\ UNCHANGED <<options, heap, now, loader, runtime>>
    /\ UNCHANGED <<planVars, execVars, storeVars>>

\* lines 610-635: parse_obj outside any try, then return result
RemoteParse ==
    /\ remote.pc = "parse"
    /\ LET parsed == ParseObj(remote.result_payload)
       IN  remote' = IF parsed.ok
                     THEN [remote EXCEPT !.pc = "returned", !.result = parsed.result]
                     ELSE [remote EXCEPT !.pc = "raised",
                              !.raised = [class |-> parsed.raised]]
    /\ UNCHANGED <<options, heap, now, loader, runtime>>
    /\ UNCHANGED <<planVars, execVars, storeVars>>

\* a call of run() about to start, for every configuration, graph and options
RemoteInit ==
    /\ workflow \in {[nodes |-> NodeList(n), edges |-> <<>>] : n \in 1..MaxRunNodes}
    /\ plan = NoPlan
    /\ node_timeout = DefaultNodeTimeout
    /\ ExecIdle
    /\ StoreIdle
    /\ options \in {PyNone, StagingOptions}
    /\ heap = <<>>
    /\ now = ClockStart
    /\ loader = NoLoad
    /\ remote \in {[pc |-> "start", timeout |-> t, payload |-> NoCall, requests |-> <<>>,
                    response |-> NoResponse, exc |-> NoResult,
                    result_payload |-> NoResult, result |-> NoResult,
                    raised |-> NoResult] : t \in RemoteTimeouts}
    /\ runtime = NoContext

RemoteNext ==
    \/ RemoteRun
    \/ HttpxPost
    \/ RaiseForStatus
    \/ RemoteExcept
    \/ RemoteReadJson
    \/ RemoteParse

RemoteSpec == RemoteInit /\ [][RemoteNext]_vars

(***************************************************************************)
(* runtime_configuration (settings.py), the context manager in which the   *)
(* execute endpoint runs a workflow on the local executor.  os.environ is  *)
(* a function from the names that are set to their values; a Python dict   *)
(* is a function whose domain is its keys, <<>> the empty one; sys.path is  *)
(* a sequence of strings.                                                  *)
(***************************************************************************)
RUNTIME_CONFIG_ENV_VAR == "DATAPIZZA_RUNTIME_CONFIG_OVERRIDES"

\* the working directory of the process
WorkingDirectory == "/srv/app"

\* os.path.abspath on the paths of the model: a relative path is joined to
\* the working directory, the empty path is the working directory, and a
\* trailing separator goes
Abspath(path) ==
    CASE path = "" -> WorkingDirectory
      [] path = "plugins" -> "/srv/app/plugins"
      [] path = "/opt/plugins/" -> "/opt/plugins"
      [] OTHER -> path

\* json.dumps(config_overrides) for the mappings of the model
JsonDumps(dict) ==
    IF dict = ("mode" :> "fast") THEN "{\"mode\": \"fast\"}" ELSE "{}"

\* dict.update(other), {**dict, **other}
Update(dict, other) == other @@ dict

\* os.environ.get(key)
EnvironGet(environ, key) == IF key \in DOMAIN environ THEN environ[key] ELSE None

\* the profiles an AppSettings may hold under runtime_environments
StagingProfile ==
    [component_search_paths |-> <<"/opt/plugins/">>,
     environment_variables |-> ("API_KEY" :> "staging"),
     credentials |-> <<>>]

SettingsSamples ==
    {[runtime_environments |-> <<>>],
     [runtime_environments |-> ("staging" :> StagingProfile)]}

\* the WorkflowRuntimeOptions a request may carry, or None
RuntimeOptionsSamples ==
    {PyNone} \cup
    [environment : {None, "staging"},
     componentSearchPaths : {<<>>, <<"plugins">>, <<"/opt/plugins", "plugins">>},
     environmentVariables : {<<>>, "API_KEY" :> "request",
                             RUNTIME_CONFIG_ENV_VAR :> "request"},
     credentials : {<<>>, "API_KEY" :> "secret"},
     configOverrides : {<<>>, "mode" :> "fast"}]

\* AppSettings.build_runtime_overrides, lines 96-123
BuildRuntimeOverrides(settings, runtime_options) ==
    LET named == /\ runtime_options # PyNone
                 /\ runtime_options.environment # None
                 /\ runtime_options.environment \in DOMAIN settings.runtime_environments
        profile == settings.runtime_environments[runtime_options.environment]
        profile_paths == IF named THEN profile.component_search_paths ELSE <<>>
        profile_env == IF named THEN profile.environment_variables ELSE <<>>
        profile_credentials == IF named THEN profile.credentials ELSE <<>>
    IN  IF runtime_options = PyNone
        THEN [paths |-> <<>>, env_vars |-> <<>>, credentials |-> <<>>,
              config_overrides |-> <<>>]
        ELSE [paths |-> profile_paths \o runtime_options.componentSearchPaths,
              env_vars |-> Update(profile_env, runtime_options.environmentVariables),
              credentials |-> Update(profile_credentials, runtime_options.credentials),
              config_overrides |-> runtime_options.configOverrides]

\* lines 156-161: each path not yet on sys.path goes to its front and is
\* remembered
RECURSIVE InsertPaths(_, _, _)
InsertPaths(paths, sys_path, inserted_paths) ==
    IF paths = <<>> THEN [sys_path |-> sys_path, inserted_paths |-> inserted_paths]
    ELSE LET normalised == Abspath(Head(paths))
         IN  IF normalised \notin Range(sys_path)
             THEN InsertPaths(Tail(paths), <<normalised>> \o sys_path,
                              Append(inserted_paths, normalised))
             ELSE InsertPaths(Tail(paths), sys_path, inserted_paths)

\* list.remove(path): the first occurrence goes; ValueError when there is none
ListRemove(list, path) ==
    IF path \notin Range(list) THEN [ok |-> FALSE, raised |-> "ValueError"]
    ELSE LET first == CHOOSE i \in DOMAIN list :
                          /\ list[i] = path
                          /\ \A j \in 1..(i - 1) : list[j] # path
         IN  [ok |-> TRUE,
              list |-> SubSeq(list, 1, first - 1) \o SubSeq(list, first + 1, Len(list))]

\* lines 183-187: the remembered paths are removed, one that is gone is skipped
RECURSIVE RemovePaths(_, _)
RemovePaths(inserted_paths, sys_path) ==
    IF inserted_paths = <<>> THEN sys_path
    ELSE LET removed == ListRemove(sys_path, Head(inserted_paths))
         IN  RemovePaths(Tail(inserted_paths),
                         IF removed.ok THEN removed.list ELSE sys_path)

\* lines 178-182: a name whose previous value is None is popped, any other
\* gets its previous value
RestoreEnvironment(previous_env, environ) ==
    LET popped == {key \in DOMAIN previous_env : previous_env[key] = None}
    IN  [key \in (DOMAIN environ \cup DOMAIN previous_env) \ popped |->
            IF key \in DOMAIN previous_env THEN previous_env[key] ELSE environ[key]]

\* the environments and search paths a process may have before the call
EnvironSamples ==
    {<<>>, "API_KEY" :> "host", RUNTIME_CONFIG_ENV_VAR :> "host",
     ("API_KEY" :> "host") @@ (RUNTIME_CONFIG_ENV_VAR :> "host")}

SysPathSamples ==
    {<<"", "/usr/lib/python3">>, <<"/srv/app", "/usr/lib/python3">>,
     <<"/usr/lib/python3", "/opt/plugins">>, <<"/opt/plugins/", "/usr/lib/python3">>}

ConfigurationInit ==
    /\ workflow = [nodes |-> NodeList(1), edges |-> <<>>]
    /\ plan = NoPlan
    /\ node_timeout = DefaultNodeTimeout
    /\ ExecIdle
    /\ StoreIdle
    /\ options = PyNone
    /\ heap = <<>>
    /\ now = ClockStart
    /\ loader = NoLoad
    /\ remote = NoRequest
    /\ runtime \in {[pc |-> "enter", environ |-> e, sys_path |-> p] :
                      e \in EnvironSamples, p \in SysPathSamples}

\* runtime_configuration up to its yield, lines 149-176.  The values of the
\* mappings are strings, so no name is skipped; "entry" keeps what the
\* environment and the search path were when the call was made.
RuntimeConfigurationEnter ==
    /\ runtime.pc = "enter"
    /\ \E settings \in SettingsSamples, runtime_options \in RuntimeOptionsSamples :
          LET overrides == BuildRuntimeOverrides(settings, runtime_options)
              with_paths == InsertPaths(overrides.paths, runtime.sys_path, <<>>)
              updates == Update(overrides.env_vars, overrides.credentials)
              previous_updates ==
                  [key \in DOMAIN updates |-> EnvironGet(runtime.environ, key)]
              updated == Update(runtime.environ, updates)
              signals == overrides.config_overrides # <<>>
          IN  runtime' =
                [pc |-> "body",
                 body |-> "running",
                 entry |-> [environ |-> runtime.environ, sys_path |-> runtime.sys_path],
                 overrides |-> overrides,
                 sys_path |-> with_paths.sys_path,
                 inserted_paths |-> with_paths.inserted_paths,
                 previous_env |->
                     IF signals
                     THEN Update(previous_updates,
                                 RUNTIME_CONFIG_ENV_VAR :>
                                     EnvironGet(updated, RUNTIME_CONFIG_ENV_VAR))
                     ELSE previous_updates,
                 environ |->
                     IF signals
                     THEN Update(updated, RUNTIME_CONFIG_ENV_VAR :>
                                              JsonDumps(overrides.config_overrides))
                     ELSE updated]
    /\ UNCHANGED <<options, heap, now, loader, remote>>
    /\ UNCHANGED <<planVars, execVars, storeVars>>

\* main.py, line 208: executor.run inside the with block returns, or raises
\* (a graph with a cycle); either way the finally clause is next
WithBodyEnds ==
    /\ runtime.pc = "body"
    /\ \E outcome \in {"returned", "raised"} :
          runtime' = [runtime EXCEPT !.pc = "finally", !.body = outcome]
    /\ UNCHANGED <<options, heap, now, loader, remote>>
    /\ UNCHANGED <<planVars, execVars, storeVars>>

\* the finally clause, lines 177-187
RuntimeConfigurationExit ==
    /\ runtime.pc = "finally"
    /\ runtime' = [runtime EXCEPT
                     !.pc = "exited",
                     !.environ = RestoreEnvironment(runtime.previous_env, @),
                     !.sys_path = RemovePaths(runtime.inserted_paths, @)]
    /\ UNCHANGED <<options, heap, now, loader, remote>>
    /\ UNCHANGED <<planVars, execVars, storeVars>>

ConfigurationNext ==
    \/ RuntimeConfigurationEnter
    \/ WithBodyEnds
    \/ RuntimeConfigurationExit

ConfigurationSpec == ConfigurationInit /\ [][ConfigurationNext]_vars

(***************************************************************************)
(* Graph predicates used to state the compiler's contract.                 *)
(***************************************************************************)
EdgePairs(wf) == {<<wf.edges[i].source, wf.edges[i].target>> : i \in DOMAIN wf.edges}

\* transitive closure of the edge relation
RECURSIVE TransitiveClosure(_)
TransitiveClosure(R) ==
    LET R2 == R \cup {<<p[1], q[2]>> : p, q \in R}
        R3 == {r \in R2 : r \in R \/ \E p, q \in R : p[2] = q[1] /\ r = <<p[1], q[2]>>}
    IN  IF R3 = R THEN R ELSE TransitiveClosure(R3)

OnCycle(wf, n) == <<n, n>> \in TransitiveClosure(EdgePairs(wf))

Acyclic(wf) == \A n \in NodeSet(wf) : ~OnCycle(wf, n)

PositionIn(seq, n) == CHOOSE i \in DOMAIN seq : seq[i] = n

(***************************************************************************)
(* C1: for every acyclic graph the compiler returns an order that holds    *)
(* every node of the graph exactly once and puts, for every edge, the      *)
(* source node before the target node.                                     *)
(***************************************************************************)
RespectsEdges(wf, order) ==
    /\ Len(order) = Len(wf.nodes)
    /\ \A n \in NodeSet(wf) : Cardinality({i \in DOMAIN order : order[i] = n}) = 1
    /\ \A i \in DOMAIN wf.edges :
          PositionIn(order, wf.edges[i].source) < PositionIn(order, wf.edges[i].target)

C1_AcyclicGraphOrdered ==
    (plan # NoPlan /\ Acyclic(workflow)) =>
        /\ plan.ok
        /\ RespectsEdges(workflow, plan.order)

\* a compiled acyclic graph whose order differs from the declaration order
C1_Witness ==
    /\ plan # NoPlan
    /\ Acyclic(workflow)
    /\ Len(workflow.nodes) = 3
    /\ Len(workflow.edges) >= 2
    /\ plan.ok
    /\ plan.order # workflow.nodes

(***************************************************************************)
(* C2: for every graph that contains a cycle (a self-loop, or a cycle      *)
(* reachable from schedulable nodes, included) the compiler reports the    *)
(* unschedulable-graph error and returns no order at all.                  *)
(***************************************************************************)
C2_CyclicGraphRejected ==
    (plan # NoPlan /\ ~Acyclic(workflow)) =>
        /\ ~plan.ok
        /\ plan.error = CyclesError
        /\ "order" \notin DOMAIN plan

\* a rejected graph whose first node is schedulable and leads into a cycle
C2_Witness ==
    /\ plan # NoPlan
    /\ ~plan.ok
    /\ ~OnCycle(workflow, 1)
    /\ IncomingCounts(workflow)[1] = 0
    /\ \E n \in NodeSet(workflow) :
          /\ OnCycle(workflow, n)
          /\ <<1, n>> \in TransitiveClosure(EdgePairs(workflow))

(***************************************************************************)
(* C3: in every result returned by run() the step list follows the         *)
(* execution order without gaps, every step but possibly the last is       *)
(* completed and the last may be failed, no node after a failed node is    *)
(* examined, resolved or invoked (a node with a failed ancestor never      *)
(* executes), and the status is success exactly when every node of the     *)
(* graph has a completed step.                                             *)
(***************************************************************************)
CompletedNodes == {steps[i].nodeId : i \in {j \in DOMAIN steps : steps[j].status = "completed"}}

Ancestors(wf, n) == {a \in NodeSet(wf) : <<a, n>> \in TransitiveClosure(EdgePairs(wf))}

C3_ResultFollowsOrder ==
    /\ \A i \in DOMAIN invoked :
          \A a \in Ancestors(workflow, invoked[i]) : a \in CompletedNodes
    /\ pc = "returned" =>
        /\ plan.ok =>
            /\ Len(steps) <= Len(plan.order)
            /\ \A i \in DOMAIN steps : steps[i].nodeId = plan.order[i]
            /\ Range(invoked) \subseteq {plan.order[i] : i \in DOMAIN steps}
            /\ resolved \subseteq {plan.order[i] : i \in DOMAIN steps}
            /\ idx \in {Len(steps), Len(plan.order) + 1}
        /\ \A i \in DOMAIN steps :
              /\ i < Len(steps) => steps[i].status = "completed"
              /\ steps[i].status \in {"completed", "failed"}
        /\ RunResult.status \in {"success", "failure"}
        /\ RunResult.status = "success" <=> NodeSet(workflow) \subseteq CompletedNodes

\* a returned result with a completed step followed by a failed one, the
\* failure coming from the capability itself
C3_Witness ==
    /\ pc = "returned"
    /\ Len(steps) = 2
    /\ steps[1].status = "completed"
    /\ steps[2].status = "failed"
    /\ Len(invoked) = 2
    /\ RunResult.status = "failure"

(***************************************************************************)
(* C4: run() never lets an error escape: whatever the graph and whatever   *)
(* the capability does (raise, return any value, exceed the deadline, be   *)
(* unresolvable or not invocable), run() returns a result with a failed    *)
(* step instead of raising.                                                *)
(***************************************************************************)
C4_NoErrorEscapes == pc # "raised"

(***************************************************************************)
(* C5: a capability that never returns cannot block the driver: once the   *)
(* deadline has passed run() returns, without waiting for the abandoned    *)
(* capability to finish.                                                   *)
(***************************************************************************)
C5_HungCapabilityAbandoned ==
    (worker = "hung" /\ call.node \in expired) ~> (pc = "returned")

(***************************************************************************)
(* C6: when a node's invocation exceeds the per-node timeout, the node's   *)
(* step is failed with the timeout message carrying the configured         *)
(* duration (to the tenth of a second the message shows), the run status   *)
(* is failure, no later node runs, and what the capability returns after   *)
(* the deadline is never recorded as a result nor passed to any node.      *)
(***************************************************************************)
ShowsDuration(details, t) ==
    /\ details.text = "component execution timed out after"
    /\ 10 * details.tenths - t <= 5
    /\ t - 10 * details.tenths <= 5

C7_RunReachesSuccess ==
    \A r \in DOMAIN runs :
        (bg[r].pc = "done" /\ bg[r].executor = "local") =>
            /\ runs[r].status = "success"
            /\ \A n \in DOMAIN runs[r].steps : runs[r].steps[n].status = "completed"
            /\ runs[r].result # NoResult

(***************************************************************************)
(* C8: for any registered run and any cursor c, get_logs returns exactly   *)
(* the run's log entries whose sequence is greater than c (all entries     *)
(* without a cursor), in ascending sequence order, and nextCursor is the   *)
(* highest sequence number assigned in the run so far.                     *)
(***************************************************************************)
Cursors == {<<>>} \cup {<<c>> : c \in -1..3}

HighestAssigned(r) ==
    IF drawn[r] = <<>> THEN 0
    ELSE CHOOSE m \in Range(drawn[r]) : \A x \in Range(drawn[r]) : x <= m

C9_PollingGapFree ==
    (poller.run # 0 /\ poller.pc = "idle") =>
        LET entries == runs[poller.run].logs IN
        /\ \A j, k \in DOMAIN poller.received :
              j < k => poller.received[j].sequence < poller.received[k].sequence
        /\ \A i \in DOMAIN entries :
              (poller.after # <<>> /\ entries[i].sequence <= poller.after[1]) =>
                  \E j \in DOMAIN poller.received : poller.received[j] = entries[i]

(***************************************************************************)
(* C10: under every interleaving with the background task, the status      *)
(* start_run returns is the run's initial state: status running, one       *)
(* pending step per node, no result and no error.                          *)
(***************************************************************************)
C10_StartReturnsInitialStatus ==
    client.pc = "returned" =>
        /\ client.response.status = "running"
        /\ DOMAIN client.response.steps = NodeSet(SnapshotOf(heap, runs[client.run]).workflow)
        /\ \A n \in DOMAIN client.response.steps :
              client.response.steps[n].status = "pending"
        /\ client.response.result = NoResult
        /\ client.response.error = None

(***************************************************************************)
(* C12: the capability resolver returns a handle only for a reference      *)
(* that is a non-empty string under the prefix "datapizza." with a         *)
(* non-empty module path and attribute; every other reference is refused   *)
(* with a ComponentLoadError before any module is imported.                *)
(***************************************************************************)
WellFormedReference(v) ==
    /\ v.type = "str"
    /\ Len(v.chars) > Len(NamespacePrefix)
    /\ v.chars[1] = "datapizza"
    /\ v.chars[2] = "."
    /\ v.chars[Len(v.chars)] # "."

RefusalMessages ==
    {"component path must be a non-empty string",
     "component resolution is restricted to the 'datapizza' namespace",
     "is not a valid fully-qualified component reference"}

C12_ResolverTrustBoundary ==
    "outcome" \in DOMAIN loader =>
        /\ loader.outcome.ok => WellFormedReference(loader.path)
        /\ ~WellFormedReference(loader.path) =>
              /\ ~loader.outcome.ok
              /\ loader.outcome.imports = <<>>
              /\ loader.outcome.error.text \in RefusalMessages

\* "datapizza." has been refused without an import
C12_Witness ==
    /\ "outcome" \in DOMAIN loader
    /\ loader.path = PyStr(<<"datapizza", ".">>)
    /\ ~loader.outcome.ok
    /\ loader.outcome.imports = <<>>

(***************************************************************************)
(* C18: a node without a usable capability reference (absent, not a        *)
(* string, blank) fails with the missing-reference message before its      *)
(* parameters are parsed and before anything is resolved or invoked, and   *)
(* the run ends with failure; a graph of one such node gives exactly one   *)
(* step.                                                                   *)
(***************************************************************************)
NoUsableReference(c) ==
    \/ c = PyNone
    \/ c.type # "str"
    \/ \A i \in DOMAIN c.chars : c.chars[i] = " "

LastStep == steps[Len(steps)]

C18_MissingReferenceFails ==
    (cur # NoNode /\ NoUsableReference(cur.component)) =>
        /\ pc = "returned"
        /\ LastStep = [nodeId |-> cur.node, status |-> "failed",
                       details |-> MissingComponentDetails]
        /\ RunResult.status = "failure"
        /\ "parsed" \notin DOMAIN cur
        /\ cur.node \notin resolved
        /\ cur.node \notin Range(invoked)
        /\ Len(workflow.nodes) = 1 => Len(steps) = 1

\* a single node whose reference is a blank string
C18_Witness ==
    /\ pc = "returned"
    /\ Len(workflow.nodes) = 1
    /\ cur # NoNode
    /\ cur.component = PyStr(<<" ">>)
    /\ Len(steps) = 1
    /\ steps[1].details = MissingComponentDetails

(***************************************************************************)
(* C19: parameter parsing accepts an absent payload (an empty mapping) or  *)
(* a mapping (returned with every key coerced to a string) and nothing     *)
(* else; a node with a usable reference and any other payload gets a       *)
(* failed step with the InvalidParameters message, its capability is       *)
(* neither resolved nor invoked, and the run ends with failure.            *)
(***************************************************************************)
KeysOf(d) == {d.items[i][1] : i \in DOMAIN d.items}

C19_ParametersMustBeMapping ==
    (cur # NoNode /\ ~NoUsableReference(cur.component)) =>
        IF cur.parameters = PyNone
        THEN /\ "parsed" \in DOMAIN cur
             /\ cur.parsed = PyDict(<<>>)
        ELSE IF cur.parameters.type = "dict"
        THEN /\ "parsed" \in DOMAIN cur
             /\ cur.parsed.type = "dict"
             /\ \A k \in KeysOf(cur.parsed) : k.type = "str"
             /\ KeysOf(cur.parsed) = {Str(k) : k \in KeysOf(cur.parameters)}
             /\ Cardinality(KeysOf(cur.parsed)) = Len(cur.parsed.items)
             /\ \A i \in DOMAIN cur.parsed.items :
                   \E j \in DOMAIN cur.parameters.items :
                      /\ Str(cur.parameters.items[j][1]) = cur.parsed.items[i][1]
                      /\ cur.parameters.items[j][2] = cur.parsed.items[i][2]
        ELSE /\ pc = "returned"
             /\ "parsed" \notin DOMAIN cur
             /\ LastStep = [nodeId |-> cur.node, status |-> "failed",
                            details |-> InvalidParametersDetails]
             /\ RunResult.status = "failure"
             /\ cur.node \notin resolved
             /\ cur.node \notin Range(invoked)

\* the second node of a chain carries the number 0 as its parameters
C19_Witness ==
    /\ pc = "returned"
    /\ Len(steps) = 2
    /\ cur.parameters = PyInt(0)
    /\ cur.component = PyStr(<<"datapizza", ".", "tools">>)
    /\ steps[2].details = InvalidParametersDetails

(***************************************************************************)
(* C20: a reference inside the namespace whose module cannot be imported   *)
(* or whose module lacks the attribute fails with a ComponentLoadError     *)
(* that names the module (and the attribute); the node's step is failed    *)
(* with that message, nothing is invoked for the node and the run ends     *)
(* with failure.                                                           *)
(***************************************************************************)
ModuleOf(c) == RPartition(c.chars, ".").head

AttributeOf(c) == RPartition(c.chars, ".").tail

Unresolvable(c) ==
    /\ WellFormedReference(c)
    /\ \/ ModuleOf(c) \notin ImportableModules
       \/ ~HasAttribute(ModuleOf(c), AttributeOf(c))

C20_LoadErrorFailsNode ==
    (/\ cur # NoNode
     /\ "parsed" \in DOMAIN cur
     /\ Range(plan.incoming[cur.node]) \subseteq DOMAIN raw_results
     /\ Unresolvable(cur.component)) =>
        /\ pc = "returned"
        /\ LastStep.nodeId = cur.node
        /\ LastStep.status = "failed"
        /\ LastStep.details.module = ModuleOf(cur.component)
        /\ IF ModuleOf(cur.component) \in ImportableModules
           THEN /\ LastStep.details.text = "module does not expose attribute"
                /\ LastStep.details.attribute = AttributeOf(cur.component)
           ELSE LastStep.details.text = "unable to import module"
        /\ RunResult.status = "failure"
        /\ cur.node \notin Range(invoked)

\* the second node of a chain names an attribute the package lacks
C20_Witness ==
    /\ pc = "returned"
    /\ Len(steps) = 2
    /\ cur.component = PyStr(<<"datapizza", ".", "datapizza">>)
    /\ steps[2].details.text = "module does not expose attribute"
    /\ steps[2].details.attribute = <<"datapizza">>

(***************************************************************************)
(* C11: in the run store a run's status starts as running and changes at   *)
(* most once, to success or failure; a run that is success or failure      *)
(* keeps its status whatever follows (polling, archive, retry).            *)
(***************************************************************************)
C11_StatusChangesOnce ==
    [][/\ \A r \in DOMAIN runs :
             /\ runs[r].status # "running" => runs'[r].status = runs[r].status
             /\ runs'[r].status \in {"running", "success", "failure"}
       /\ \A r \in DOMAIN runs' \ DOMAIN runs : runs'[r].status = "running"]_vars

\* a failed run has been archived, and its retry has run to its end
C11_Witness ==
    \E r \in DOMAIN runs, q \in DOMAIN runs :
        /\ runs[r].status = "failure"
        /\ runs[r].archived
        /\ bg[q].origin = r
        /\ bg[q].pc = "done"

(***************************************************************************)
(* C13: the graph and options a run executes are the snapshot taken at     *)
(* start: what the caller does to its own graph or options afterwards      *)
(* changes neither the stored snapshot, nor what is handed to the          *)
(* executor, nor what a retry submits again.                               *)
(***************************************************************************)
C13_SnapshotImmutable ==
    \A r \in DOMAIN runs :
        /\ SnapshotOf(heap, runs[r]) = bg[r].taken
        /\ bg[r].args # NoCall => bg[r].args = bg[r].taken
        /\ bg[r].origin # 0 => bg[r].taken = bg[bg[r].origin].taken

\* the caller has changed both its graph and its options since the start,
\* and the retry of that run has handed the snapshot to its executor
C13_Witness ==
    \E r \in DOMAIN runs :
        /\ bg[r].origin # 0
        /\ bg[r].args # NoCall
        /\ bg[r].taken.workflow # workflow
        /\ bg[r].taken.options # PyNone
        /\ bg[r].taken.options # options

(***************************************************************************)
(* C14: getStatus, getLogs, retry and archive called with a run id that    *)
(* was never registered raise the not-found condition (KeyError) and leave *)
(* the run store unchanged: no run is registered, no background thread is  *)
(* started, and getLogs does not answer with an empty list.                *)
(***************************************************************************)
LookupOperations == {"get_status", "get_logs", "retry_run", "archive_run"}

CallStep == client.pc \in {"idle", "returned"} /\ client' # client

C14_UnknownRunIdNotFound ==
    [][(/\ CallStep
        /\ client'.op \in LookupOperations
        /\ client'.asked \notin DOMAIN runs) =>
            /\ client'.pc = "returned"
            /\ client'.response = KeyErrorResponse(client'.asked)
            /\ UNCHANGED <<runs, bg, lock, drawn, heap>>]_vars

\* a retry was asked for an id the store does not know while it holds a run
C14_Witness ==
    /\ client.pc = "returned"
    /\ client.op = "retry_run"
    /\ runs # <<>>
    /\ client.asked \notin DOMAIN runs
    /\ client.response = KeyErrorResponse(client.asked)

NoArchivedRunStillRunning ==
    \A r \in DOMAIN runs : runs[r].archived => runs[r].status \in {"success", "failure"}

C16_ArchiveOnlyMarks ==
    /\ [][/\ (CallStep /\ client'.op = "archive_run" /\ client'.asked \in DOMAIN runs) =>
                /\ DOMAIN runs' = DOMAIN runs
                /\ runs'[client'.asked] = [runs[client'.asked] EXCEPT !.archived = TRUE]
                /\ \A r \in DOMAIN runs \ {client'.asked} : runs'[r] = runs[r]
                /\ client'.response.summary.archived
                /\ UNCHANGED <<bg, drawn, heap>>
          /\ (/\ CallStep
              /\ client'.op \in {"get_status", "get_logs"}
              /\ client'.asked \in DOMAIN runs) =>
                /\ client'.run = client'.asked
                /\ client'.pc # "returned"]_vars
    /\ []<>NoArchivedRunStillRunning

\* a run has been archived while running, and its status was asked for
C16_Witness ==
    /\ client.op = "get_status"
    /\ client.pc = "read_status"
    /\ runs[client.run].archived
    /\ runs[client.run].status = "running"

(***************************************************************************)
(* C17: listRuns returns one summary per registered run, without the       *)
(* archived ones unless includeArchived is set, ordered by creation time   *)
(* with the most recently created run first.                               *)
(***************************************************************************)
C17_ListRunsNewestFirst ==
    (client.op = "list_runs" /\ client.pc = "returned") =>
        LET listed == client.response.runs
            expected == {r \in DOMAIN runs :
                            client.response.include_archived \/ ~runs[r].archived}
        IN  /\ Len(listed) = Cardinality(expected)
            /\ {listed[i].runId : i \in DOMAIN listed} = expected
            /\ \A i \in DOMAIN listed, j \in DOMAIN listed :
                  i < j => runs[listed[i].runId].created_at
                               >= runs[listed[j].runId].created_at

(***************************************************************************)
(* C21: when a node's capability raises an exception during invocation,    *)
(* run() returns with that node's failed step, whose details carry the     *)
(* exception's message, every node downstream of it has no completed step  *)
(* and no result, and the run status is failure.                           *)
(***************************************************************************)
Descendants(wf, n) == {d \in NodeSet(wf) : <<n, d>> \in TransitiveClosure(EdgePairs(wf))}

CarriesMessage(details, msg) ==
    \/ details.text = msg
    \/ "cause" \in DOMAIN details /\ details.cause = msg

CapabilityRaised ==
    /\ pc \in {"returned", "raised"}
    /\ "exception" \in DOMAIN future
    /\ call.node \notin expired

C21_RaisedExceptionFailsNode ==
    CapabilityRaised =>
        /\ pc = "returned"
        /\ LastStep.nodeId = call.node
        /\ LastStep.status = "failed"
        /\ CarriesMessage(LastStep.details, future.message)
        /\ RunResult.status = "failure"
        /\ \A d \in Descendants(workflow, call.node) :
              /\ d \notin CompletedNodes
              /\ d \notin DOMAIN results

(***************************************************************************)
(* C22: run() on an unschedulable graph reports the failure once, at       *)
(* workflow granularity: the result has status failure and exactly one     *)
(* step, with node id "__workflow__" and status failed, and no node is     *)
(* examined, resolved or invoked.                                          *)
(***************************************************************************)
Unschedulable == plan # NoPlan /\ ~plan.ok

C22_UnschedulableReportedOnce ==
    Unschedulable =>
        /\ pc = "returned"
        /\ RunResult.status = "failure"
        /\ Len(RunResult.steps) = 1
        /\ RunResult.steps[1].nodeId = WorkflowStepId
        /\ RunResult.steps[1].status = "failed"
        /\ RunResult.steps[1].details = InvalidGraphDetails(CyclesError)
        /\ RunResult.results = <<>>
        /\ cur = NoNode
        /\ resolved = {}
        /\ invoked = <<>>
        /\ worker = "idle"

\* run() has returned for a two-node graph whose nodes feed each other
C22_Witness ==
    /\ Unschedulable
    /\ pc = "returned"
    /\ Len(workflow.nodes) = 2
    /\ \E i, j \in DOMAIN workflow.edges :
          /\ workflow.edges[i].source = workflow.edges[j].target
          /\ workflow.edges[i].target = workflow.edges[j].source
          /\ workflow.edges[i].source # workflow.edges[i].target

(***************************************************************************)
(* C23: for every conventional slot name the capability declares, the      *)
(* binder binds the conventional value: "context" and "payload" each get   *)
(* the pair {parameters, inputs}, "inputs" and "upstream" each get the     *)
(* inputs map, and "parameters" gets the parameters map.                   *)
(***************************************************************************)
Bound(kwargs, key) == {kwargs.items[i][2] : i \in {j \in DOMAIN kwargs.items : kwargs.items[j][1] = key}}

BinderReturned == "outcome" \in DOMAIN loader /\ "signature" \in DOMAIN loader

ConventionalValue(word) ==
    CASE word \in {"context", "payload"} ->
            PyDict(<< <<Name("parameters"), loader.parameters>>,
                      <<Name("inputs"), loader.inputs>> >>)
      [] word \in {"inputs", "upstream"} -> loader.inputs
      [] OTHER -> loader.parameters

ConventionalNames == {"context", "payload", "inputs", "upstream", "parameters"}

C23_ConventionalSlotsBound ==
    (BinderReturned /\ loader.signature.ok) =>
        \A word \in ConventionalNames :
            Declares(loader.signature, Name(word)) =>
                /\ loader.outcome.ok
                /\ Bound(loader.outcome.kwargs, Name(word)) = {ConventionalValue(word)}
                /\ Cardinality({i \in DOMAIN loader.outcome.kwargs.items :
                                   loader.outcome.kwargs.items[i][1] = Name(word)}) = 1

\* a capability declaring both "context" and "payload" was bound while the
\* parameters carry a key "context" of their own
C23_Witness ==
    /\ BinderReturned
    /\ loader.signature.ok
    /\ Declares(loader.signature, Name("context"))
    /\ Declares(loader.signature, Name("payload"))
    /\ HasKey(loader.parameters.items, Name("context"))
    /\ loader.outcome.ok
    /\ Len(loader.outcome.kwargs.items) = 2

(***************************************************************************)
(* C24: a parameter key is bound under its own name exactly when it is not *)
(* the name of a bound conventional slot and the capability declares a     *)
(* slot of that name or accepts arbitrary extra keys; a key matching       *)
(* neither is left out, a key equal to a bound conventional slot never     *)
(* replaces the conventional value, and every key of the bound payload is  *)
(* one the capability accepts as a keyword argument.                       *)
(***************************************************************************)
\* what a Python call accepts as keyword argument `key`
AcceptsKeyword(signature, key) ==
    \/ \E i \in DOMAIN signature.parameters :
          /\ signature.parameters[i].name = key
          /\ signature.parameters[i].kind \in {"POSITIONAL_OR_KEYWORD", "KEYWORD_ONLY"}
    \/ AcceptsVarKeyword(signature)

BoundConventional(key) ==
    \E word \in ConventionalNames : key = Name(word) /\ Declares(loader.signature, key)

C24_ParameterKeysBoundByName ==
    (BinderReturned /\ loader.signature.ok /\ loader.outcome.ok) =>
        /\ \A i \in DOMAIN loader.parameters.items :
              LET key == loader.parameters.items[i][1]
                  value == loader.parameters.items[i][2]
              IN  IF BoundConventional(key)
                  THEN Bound(loader.outcome.kwargs, key) =
                          {ConventionalValue(key.chars[1])}
                  ELSE IF Declares(loader.signature, key) \/ AcceptsVarKeyword(loader.signature)
                  THEN Bound(loader.outcome.kwargs, key) = {value}
                  ELSE Bound(loader.outcome.kwargs, key) = {}
        /\ \A i \in DOMAIN loader.outcome.kwargs.items :
              AcceptsKeyword(loader.signature, loader.outcome.kwargs.items[i][1])

(***************************************************************************)
(* C25: the binder fails with "component does not accept parameters but    *)
(* configuration was provided" exactly when the parameters are not empty,  *)
(* the capability declares no slot at all and nothing was bound; in every  *)
(* other case it returns a payload.                                        *)
(***************************************************************************)
DeclaresNoSlots(signature) == signature.ok /\ signature.parameters = <<>>

C25_UnexpectedParametersOnly ==
    BinderReturned =>
        IF loader.parameters.items # <<>> /\ DeclaresNoSlots(loader.signature)
        THEN /\ ~loader.outcome.ok
             /\ loader.outcome.raised = "ComponentInvocationError"
             /\ loader.outcome.error = UnexpectedParametersDetails
        ELSE loader.outcome.ok

(***************************************************************************)
(* C26: the result normaliser is total and idempotent: for every value it  *)
(* returns, without raising, a value built only from primitives,           *)
(* string-keyed mappings and lists, and normalising that value again       *)
(* returns an equal value.                                                 *)
(***************************************************************************)
RECURSIVE JsonShaped(_)
JsonShaped(v) ==
    CASE v.type \in {"NoneType", "int", "str", "bytes"} -> TRUE
      [] v.type = "list" -> \A i \in DOMAIN v.items : JsonShaped(v.items[i])
      [] v.type = "dict" ->
            \A i \in DOMAIN v.items :
                v.items[i][1].type = "str" /\ JsonShaped(v.items[i][2])
      [] OTHER -> FALSE

C26_NormaliserTotalIdempotent ==
    ("outcome" \in DOMAIN loader /\ "result" \in DOMAIN loader) =>
        /\ loader.outcome.ok
        /\ JsonShaped(loader.outcome.value)
        /\ loader.again.ok
        /\ loader.again.value = loader.outcome.value

(***************************************************************************)
(* C27: a run's log is append-only and its entries carry the sequence      *)
(* numbers 1, 2, 3, ... in order: strictly increasing, unique and never    *)
(* reused; a stored entry is never removed or changed, and appending to    *)
(* one run leaves the counter and the log of every other run as they were. *)
(***************************************************************************)
NumberedFromOne(r) ==
    /\ \A i \in DOMAIN runs[r].logs : runs[r].logs[i].sequence = i
    /\ drawn[r] = [i \in 1..Len(drawn[r]) |-> i]
    /\ runs[r].next_sequence = Len(drawn[r])
    /\ Len(runs[r].logs) \in {Len(drawn[r]), Len(drawn[r]) - 1}

LogKept(r) ==
    /\ Len(runs'[r].logs) >= Len(runs[r].logs)
    /\ SubSeq(runs'[r].logs, 1, Len(runs[r].logs)) = runs[r].logs
    /\ runs'[r].next_sequence >= runs[r].next_sequence

LogTouched(r) ==
    \/ runs'[r].logs # runs[r].logs
    \/ runs'[r].next_sequence # runs[r].next_sequence

C27_LogAppendOnly ==
    /\ [](\A r \in DOMAIN runs : NumberedFromOne(r))
    /\ [][\A r \in DOMAIN runs :
              /\ r \in DOMAIN runs'
              /\ LogKept(r)
              /\ LogTouched(r) =>
                    \A q \in DOMAIN runs \ {r} : ~LogTouched(q)]_vars

\* two runs, the second appending its first entry after the first run has
\* logged both of its own
C27_Witness ==
    /\ Len(runs) = 2
    /\ Len(runs[1].logs) = 2
    /\ runs[1].logs[2].sequence = 2
    /\ Len(runs[2].logs) = 1
    /\ runs[2].logs[1].sequence = 1
    /\ runs[2].next_sequence = 1

(***************************************************************************)
(* C28: every failed outcome of the remote executor's run() surfaces as a  *)
(* RemoteExecutionError and no other error type escapes: a deadline        *)
(* exceeded gives the timeout message with the configured duration, a      *)
(* non-success status code the message naming the code, a transport-level  *)
(* failure the generic transport message, and a response body that cannot  *)
(* be turned into a result the invalid-payload message.                    *)
(***************************************************************************)
RequestRaised(exceptions) == remote.exc # NoResult /\ remote.exc \in exceptions

Answered == remote.response # NoResponse

\* the body is JSON that holds a run id, a status and steps
CarriesResult(body) == body.content = "json" /\ body.document \in ResultDocuments

C28_FailuresAreRemoteExecutionErrors ==
    remote.pc = "raised" =>
        /\ remote.raised.class = "RemoteExecutionError"
        /\ RequestRaised({ConnectTimeout, ReadTimeout}) =>
              /\ remote.raised.message.text = "Remote workflow execution timed out after"
              /\ remote.raised.message.tenths * 10 = remote.timeout
        /\ (Answered /\ ~IsSuccess(remote.response)) =>
              remote.raised.message = RemoteStatusMessage(remote.response.status_code)
        /\ RequestRaised({ConnectError, RemoteProtocolError}) =>
              remote.raised.message = RemoteTransportMessage
        /\ (Answered /\ IsSuccess(remote.response) /\ ~CarriesResult(remote.response.body)) =>
              remote.raised.message = RemoteInvalidPayloadMessage

(***************************************************************************)
(* C29: each call of the remote executor's run() issues exactly one        *)
(* request to the endpoint and never retries, whatever the outcome; on a   *)
(* successful response the remote result is returned unchanged (run id,    *)
(* status, steps, outputs), also when its status is failure or it holds    *)
(* failed steps.                                                           *)
(***************************************************************************)
Posted == remote.pc \notin {"start", "post"}

SameStep(step, document) ==
    /\ step.nodeId = Item(document, "nodeId")
    /\ step.status = Item(document, "status")
    /\ HasKey(document.items, Name("details")) => step.details = Item(document, "details")

SameResult(result, document) ==
    /\ result.runId = Item(document, "runId")
    /\ result.status = Item(document, "status")
    /\ Len(result.steps) = Len(Item(document, "steps").items)
    /\ \A i \in DOMAIN result.steps : SameStep(result.steps[i], Item(document, "steps").items[i])
    /\ HasKey(document.items, Name("outputs")) => result.outputs = Item(document, "outputs")

C29_OneRequestResultUnchanged ==
    /\ Len(remote.requests) = (IF Posted THEN 1 ELSE 0)
    /\ Posted => remote.requests[1].workflow = workflow
    /\ remote.pc = "returned" =>
          /\ IsSuccess(remote.response)
          /\ SameResult(remote.result, remote.response.body.document)
    /\ (/\ remote.pc \in {"returned", "raised"}
        /\ Answered
        /\ IsSuccess(remote.response)
        /\ CarriesResult(remote.response.body)) => remote.pc = "returned"

\* the peer answered 200 with a failed run that holds a failed step, and
\* run() returned it after its one request
C29_Witness ==
    /\ remote.pc = "returned"
    /\ Len(remote.requests) = 1
    /\ remote.response.status_code = 200
    /\ remote.result.status = Name("failure")
    /\ \E i \in DOMAIN remote.result.steps :
          /\ remote.result.steps[i].status = Name("failed")
          /\ remote.result.steps[i].details = Name("boom")

(***************************************************************************)
(* C30: every read and every write of a run's mutable fields (status,      *)
(* steps, logs and sequence counter, result, error) is performed by a      *)
(* thread that holds the store lock, the reads that build the responses of *)
(* get_status, get_logs and start_run included.                            *)
(***************************************************************************)
\* the background thread of run r is inside a "with self._lock" block
InLockedSection(r) == bg[r].pc \in {"start_log_append", "fail_log_append", "fail_error"}

\* the lock is held, and by none of the background threads
CallerHoldsLock == lock /\ \A r \in DOMAIN bg : ~InLockedSection(r)

\* a step of to_status or of get_logs that reads a field of the record
ReadsRunFields ==
    \/ client.pc \in {"read_status", "read_steps", "read_result", "read_error"}
       /\ client' # client
    \/ poller.pc \in {"read_logs", "read_cursor"} /\ poller' # poller

WritesRunFields(r) == r \in DOMAIN runs' /\ runs'[r] # runs[r]

C30_FieldsAccessedUnderLock ==
    [][/\ ReadsRunFields => CallerHoldsLock
       /\ \A r \in DOMAIN runs :
             WritesRunFields(r) => (InLockedSection(r) \/ InLockedSection(r)')]_vars

(***************************************************************************)
(* C32: when the drive loop comes to gather the inputs of a node (its      *)
(* reference present, its parameters a mapping) and the incoming map names *)
(* an upstream node that has no recorded result, the node's step is failed *)
(* with details listing the missing upstream ids in order, the node's      *)
(* capability is neither resolved nor invoked, and the run ends with       *)
(* failure.                                                                *)
(***************************************************************************)
MissingUpstreams(node) == Range(plan.incoming[node]) \ DOMAIN raw_results

\* the loop has examined the node and found its reference and parameters good
GatheredInputs(node) == cur # NoNode /\ cur.node = node /\ "parsed" \in DOMAIN cur

ReportsMissing(step, node) ==
    /\ step.nodeId = node
    /\ step.status = "failed"
    /\ step.details.text = "missing upstream results from nodes"
    /\ Range(step.details.nodes) = MissingUpstreams(node)
    /\ \A i, j \in DOMAIN step.details.nodes :
          i < j => step.details.nodes[i] < step.details.nodes[j]

C32_MissingUpstreamFailsNode ==
    \A node \in NodeSet(workflow) :
        (plan # NoPlan /\ GatheredInputs(node) /\ MissingUpstreams(node) # {}) =>
            /\ pc = "returned"
            /\ status = "failure"
            /\ steps # <<>>
            /\ ReportsMissing(steps[Len(steps)], node)
            /\ node \notin resolved
            /\ node \notin Range(invoked)
            /\ worker = "idle"

\* the second node names the undeclared upstream, after the first completed
C32_Witness ==
    /\ pc = "returned"
    /\ Len(steps) = 2
    /\ steps[1].status = "completed"
    /\ steps[2].status = "failed"
    /\ steps[2].details = MissingUpstreamDetails(<<UndeclaredNode(workflow)>>)
    /\ invoked = <<1>>
    /\ resolved = {1}

(***************************************************************************)
(* C33: with the plan the schedule compiler itself produced, whenever the  *)
(* drive loop reaches a node every direct upstream of that node already    *)
(* has a recorded result, so no step ever reports missing upstream         *)
(* results: the loop has halted before a node with a failed or unexecuted  *)
(* ancestor is reached.                                                    *)
(***************************************************************************)
UpstreamOf(node) == {workflow.edges[i].source :
                        i \in {j \in DOMAIN workflow.edges : workflow.edges[j].target = node}}

AtNode == pc = "loop" /\ plan # NoPlan /\ plan.ok /\ idx <= Len(plan.order)

C33_UpstreamResultsPresent ==
    /\ AtNode =>
          /\ UpstreamOf(plan.order[idx]) \subseteq DOMAIN raw_results
          /\ Range(plan.incoming[plan.order[idx]]) \subseteq DOMAIN raw_results
    /\ \A i \in DOMAIN steps :
          steps[i].details.text # "missing upstream results from nodes"
    /\ \A node \in Range(invoked) : UpstreamOf(node) \subseteq DOMAIN raw_results

\* the loop stands at a node fed by the node that ran before it
C33_Witness ==
    /\ AtNode
    /\ idx = 2
    /\ UpstreamOf(plan.order[idx]) # {}
    /\ UpstreamOf(plan.order[idx]) \subseteq DOMAIN raw_results

(***************************************************************************)
(* C34: within one run at most one capability invocation is in progress at *)
(* any time and each node is invoked at most once; an invocation starts    *)
(* only after every earlier node's invocation has finished, and never      *)
(* after a node has failed or timed out.                                   *)
(***************************************************************************)
InProgress == worker \in {"running", "hung", "finished"}

Submits == invoked' # invoked

SomeNodeFailed == \E i \in DOMAIN steps : steps[i].status = "failed"

C34_InvocationsSerial ==
    /\ [](/\ \A i, j \in DOMAIN invoked : invoked[i] = invoked[j] => i = j
          /\ InProgress =>
                /\ pc \in {"waiting", "joining"}
                /\ invoked # <<>>
                /\ call.node = invoked[Len(invoked)])
    /\ [][Submits =>
            /\ ~InProgress
            /\ invoked' = Append(invoked, plan.order[idx])
            /\ Range(invoked) \subseteq DOMAIN raw_results
            /\ ~SomeNodeFailed
            /\ expired = {}
            /\ status = "success"]_vars

\* the second node's capability runs after the first one's has returned
C34_Witness ==
    /\ Len(invoked) = 2
    /\ worker = "running"
    /\ invoked[1] \in DOMAIN raw_results
    /\ invoked[2] \notin DOMAIN raw_results

(***************************************************************************)
(* C35: the schedule compiler resolves ties by discovery order, so the     *)
(* order of a graph is fixed by the graph alone: it is the one topological *)
(* order in which nodes leave the queue as they entered it, the nodes      *)
(* without incoming edges entering first in declaration order and every    *)
(* other node entering when its last upstream node is dequeued, in the     *)
(* order of the edges leaving that node.                                   *)
(***************************************************************************)
DeclaredAt(wf, n) == CHOOSE i \in DOMAIN wf.nodes : wf.nodes[i] = n

SourcesOf(wf, n) ==
    {wf.edges[i].source : i \in {j \in DOMAIN wf.edges : wf.edges[j].target = n}}

\* the upstream node of n that comes last in the order
LastUpstream(wf, order, n) ==
    CHOOSE p \in SourcesOf(wf, n) :
        \A q \in SourcesOf(wf, n) : PositionIn(order, q) <= PositionIn(order, p)

\* the last edge from p to n, counted among all edges of the graph
LastEdge(wf, p, n) ==
    CHOOSE i \in DOMAIN wf.edges :
        /\ wf.edges[i] = [source |-> p, target |-> n]
        /\ \A j \in DOMAIN wf.edges : wf.edges[j] = wf.edges[i] => j <= i

\* when n is discovered: <<0, declaration index>> for a node without
\* incoming edges, else <<position of its last upstream, edge index>>
Discovery(wf, order, n) ==
    IF SourcesOf(wf, n) = {} THEN <<0, DeclaredAt(wf, n)>>
    ELSE LET p == LastUpstream(wf, order, n)
         IN  <<PositionIn(order, p), LastEdge(wf, p, n)>>

Earlier(a, b) == a[1] < b[1] \/ (a[1] = b[1] /\ a[2] < b[2])

InDiscoveryOrder(wf, order) ==
    /\ RespectsEdges(wf, order)
    /\ \A i, j \in DOMAIN order :
          i < j => Earlier(Discovery(wf, order, order[i]), Discovery(wf, order, order[j]))

Orderings(wf) ==
    {o \in [1..Len(wf.nodes) -> NodeSet(wf)] : \A i, j \in DOMAIN o : o[i] = o[j] => i = j}

C35_TiesByDiscoveryOrder ==
    (plan # NoPlan /\ plan.ok) =>
        /\ InDiscoveryOrder(workflow, plan.order)
        /\ \A o \in Orderings(workflow) : InDiscoveryOrder(workflow, o) => o = plan.order
        /\ BuildExecutionPlan(workflow) = plan

\* a compiled graph that has another topological order, which the compiler
\* did not choose
C35_Witness ==
    /\ plan # NoPlan
    /\ plan.ok
    /\ workflow.edges # <<>>
    /\ \E o \in Orderings(workflow) : RespectsEdges(workflow, o) /\ o # plan.order

(***************************************************************************)
(* C36: the inputs handed to a node's invocation have as keys exactly the  *)
(* source nodes of the node's incoming edges, each once however many edges *)
(* join the pair, and map each to the result that node's capability        *)
(* returned in this run, as returned and not in its normalised form; the   *)
(* results of other nodes are never included.                              *)
(***************************************************************************)
\* the inputs the capability in call was given (the signatures of the model
\* that take inputs take them under the name "inputs")
HandedInputs == Bound(call.kwargs, Name("inputs"))

EdgesJoining(u, n) ==
    {i \in DOMAIN workflow.edges : workflow.edges[i] = [source |-> u, target |-> n]}

C36_InputsAreDirectUpstreamResults ==
    call # NoCall =>
        \A inputs \in HandedInputs :
            /\ DOMAIN inputs = {u \in NodeSet(workflow) : EdgesJoining(u, call.node) # {}}
            /\ \A u \in DOMAIN inputs :
                  /\ inputs[u] = raw_results[u]
                  /\ inputs[u].by = u
                  /\ inputs[u] # results[u]

\* a node joined to its upstream by two edges is invoked with that node's
\* result, once
C36_Witness ==
    /\ call # NoCall
    /\ Cardinality(EdgesJoining(1, call.node)) = 2
    /\ \E inputs \in HandedInputs : DOMAIN inputs = {1}

(***************************************************************************)
(* C37: whenever get_status reports a run with status failure, the         *)
(* reported error is not null, also while the background thread is ending  *)
(* the run.                                                                *)
(***************************************************************************)
\* get_status has returned the status of a run it found
StatusReported ==
    /\ client.pc = "returned"
    /\ client.op = "get_status"
    /\ client.run # 0

C37_FailureReportsError ==
    (StatusReported /\ client.response.status = "failure")
        => client.response.error # None

(***************************************************************************)
(* C38: once a run's status reads success or failure its log no longer     *)
(* grows, so that logs read after a terminal status hold every entry of    *)
(* the run, the closing one included.                                      *)
(***************************************************************************)
\* the status of run r is one a reader takes as the end of the run
ReadsAsEnded(r) == runs[r].status \in {"success", "failure"}

C38_LogClosedOnceEnded ==
    [][\A r \in DOMAIN runs : ReadsAsEnded(r) => runs'[r].logs = runs[r].logs]_vars

(***************************************************************************)
(* C39: run ids are unique and runs are never replaced or removed: every   *)
(* start or retry adds exactly one run to the registry and leaves the      *)
(* record of every run registered before in its place, under its id.       *)
(***************************************************************************)
\* start_run registers a record in this step
Registers == client.pc # "launch" /\ client'.pc = "launch"

C39_StartAddsOneRun ==
    [][Registers =>
          /\ Cardinality(DOMAIN runs') = Cardinality(DOMAIN runs) + 1
          /\ \A id \in DOMAIN runs : runs'[id] = runs[id]]_vars

(***************************************************************************)
(* C40: runtime_configuration applies its overrides only for the time of   *)
(* the with block: when the context exits, by return or by exception,      *)
(* every environment variable has the value it had on entry (none if it    *)
(* had none) and the module search path is what it was on entry.           *)
(***************************************************************************)
C40_OverridesUndoneOnExit ==
    runtime.pc = "exited" =>
        /\ runtime.environ = runtime.entry.environ
        /\ runtime.sys_path = runtime.entry.sys_path

====
